---- MODULE Spec2Model ----
(***************************************************************************)
(* Model of the NIFTY CE trader: the backtest engine                       *)
(* (src/backtest/backtest_engine.py, class BacktestNiftyCETrader) and the  *)
(* live trader (src/trading/trader.py, class IntegratedNiftyCETrader).     *)
(*                                                                         *)
(* Prices and balances are whole rupees, times are ticks of the clock.     *)
(* A percentage (a Python float quotient) is kept as the exact fraction    *)
(* <<numerator, denominator>> in lowest terms.                             *)
(***************************************************************************)
EXTENDS Integers, Sequences, FiniteSets, TLC

VARIABLES
    mode,                \* which object the process constructed
    \* ---- BacktestNiftyCETrader ----
    current_balance,
    current_position,
    trades,
    \* ---- IntegratedNiftyCETrader ----
    available_balance,
    trading_capital,
    selected_option,
    calculated_quantity,
    position_open,
    entry_price,
    entry_time,
    position_quantity,
    position_symbol,
    daily_trades,
    total_pnl,
    now,                 \* the wall clock read by get_current_time_ist
    orders,              \* orders the broker accepted, per side, and the
                         \* fill price reported for the last of them
    \* ---- signal evaluation ----
    df,                  \* the candle window handed to an evaluator
    verdict,             \* what the evaluator returned for df
    \* ---- the two run() methods ----
    pc,                  \* where run() stands
    df_2min,             \* the confirm-timeframe candles available now
    df_5min,             \* the primary-timeframe candles available now
    idx,                 \* backtest: the loop index
    candle,              \* backtest: ce_df.iloc[idx]
    last_5min_check_idx, \* backtest: index of the last primary check
    ce_len,              \* backtest: len(ce_df), the candles loaded
    is_running,
    primary_signal,
    confirm_signal,
    last_5min_check,     \* live: clock reading of the last primary check
    \* ---- observation of calls ----
    ret,                 \* the last call and the value it returned
    entries              \* number of entries that succeeded so far

vars == <<mode, current_balance, current_position, trades,
          available_balance, trading_capital, selected_option,
          calculated_quantity, position_open, entry_price, entry_time,
          position_quantity, position_symbol, daily_trades, total_pnl,
          now, orders, df, verdict, pc, df_2min, df_5min, idx, candle,
          last_5min_check_idx, ce_len, is_running, primary_signal,
          confirm_signal,
          last_5min_check, ret, entries>>

btVars == <<current_balance, current_position, trades>>

liveVars == <<available_balance, trading_capital, selected_option,
              calculated_quantity, position_open, entry_price, entry_time,
              position_quantity, position_symbol, daily_trades, total_pnl,
              now, orders>>

evalVars == <<df, verdict>>

runVars == <<pc, df_2min, df_5min, idx, candle, last_5min_check_idx, ce_len>>

signalVars == <<is_running, primary_signal, confirm_signal, last_5min_check>>

----------------------------------------------------------------------------
\* Bounds of the model
MaxTrades == 2
MaxTime == 2
MaxLen == 21
MaxCandles == 4

\* Program constants
lot_size == 65
risk_factor_pct == 90
initial_balance == 100000
rsi_max == 65
stoch_rsi_threshold == 50

\* Python's None, for an object-valued, a time-valued and a text-valued slot
None == [none |-> TRUE]
NoneTime == -1
NoneText == "None"

\* Input domains: candle closes and fill prices, premiums quoted by the
\* broker, balances reported by the broker, exit reasons passed by the
\* drivers.  With balance 100 the trading capital is 90: one lot at premium
\* 1 (cost 65), no lot at premium 2 (cost 130).
MaxEntries == MaxTrades + 1
Prices == {1, 2}
\* entry prices of the backtest: one lot at 2000 costs more than the
\* initial balance
BuyPrices == Prices \cup {2000}
Premiums == {1, 2}
Balances == {100}
ExitReasons == {"strong_bearish", "market_close"}
Symbol == "NIFTY25100CE"

----------------------------------------------------------------------------
\* Exact arithmetic helpers

Abs(x) == IF x < 0 THEN -x ELSE x

RECURSIVE GCD(_, _)
GCD(a, b) == IF b = 0 THEN a ELSE GCD(b, a % b)

\* the quotient n / d (d > 0) as a fraction in lowest terms
Frac(n, d) ==
    LET g == GCD(Abs(n), d)
    IN  <<n \div g, d \div g>>

RoundUp(a, b) == -((-a) \div b)

\* math.floor(a / b) for b > 0
Floor(a, b) == a \div b

----------------------------------------------------------------------------
\* BacktestNiftyCETrader: simulated fills

bt_buy_rejected_never == FALSE

\* `if self.current_position: return False` of simulate_buy
\* (a position dict is truthy, None is not)
bt_buy_rejected == current_position # None

\* `if not self.current_position: return False` of simulate_sell
bt_sell_rejected == current_position = None

bt_quantity_of_balance == Floor(current_balance, initial_balance) * lot_size

\* quantity = 1 * self.config['lot_size']
bt_quantity == 1 * lot_size

bt_new_position_undated(timestamp, ce_price, quantity) ==
    [entry_time |-> NoneTime, entry_price |-> ce_price,
     quantity |-> quantity, symbol |-> Symbol]

\* the position dict built by simulate_buy
bt_new_position(timestamp, ce_price, quantity) ==
    [entry_time |-> timestamp, entry_price |-> ce_price,
     quantity |-> quantity, symbol |-> Symbol]

bt_trade_pnl_per_unit(pos, timestamp, ce_price, reason) ==
    [trade_number |-> Len(trades) + 1,
     entry_time   |-> pos.entry_time,
     exit_time    |-> timestamp,
     entry_price  |-> pos.entry_price,
     exit_price   |-> ce_price,
     quantity     |-> pos.quantity,
     pnl          |-> ce_price - pos.entry_price,
     pnl_pct      |-> Frac((ce_price - pos.entry_price) * 100, pos.entry_price),
     exit_reason  |-> reason]

\* the trade dict built by simulate_sell, with
\*   pnl = (ce_price - entry_price) * quantity
\*   pnl_pct = ((ce_price - entry_price) / entry_price) * 100
bt_trade(pos, timestamp, ce_price, reason) ==
    [trade_number |-> Len(trades) + 1,
     entry_time   |-> pos.entry_time,
     exit_time    |-> timestamp,
     entry_price  |-> pos.entry_price,
     exit_price   |-> ce_price,
     quantity     |-> pos.quantity,
     pnl          |-> (ce_price - pos.entry_price) * pos.quantity,
     pnl_pct      |-> Frac((ce_price - pos.entry_price) * 100, pos.entry_price),
     exit_reason  |-> reason]

\* the body of simulate_buy(timestamp, ce_price): what it does to the
\* object, and what it returns
simulate_buy_body(timestamp, ce_price) ==
    IF bt_buy_rejected \/ bt_quantity <= 0
    THEN /\ ret' = [op |-> "simulate_buy", val |-> "False"]
         /\ UNCHANGED <<btVars, entries>>
    ELSE /\ current_balance' = current_balance - ce_price * bt_quantity
         /\ current_position' = bt_new_position(timestamp, ce_price, bt_quantity)
         /\ entries' = entries + 1
         /\ ret' = [op |-> "simulate_buy", val |-> "True"]
         /\ UNCHANGED trades

\* the body of simulate_sell(timestamp, ce_price, reason)
simulate_sell_body(timestamp, ce_price, reason) ==
    /\ IF bt_sell_rejected
       THEN /\ ret' = [op |-> "simulate_sell", val |-> "False"]
            /\ UNCHANGED btVars
       ELSE /\ current_balance' = current_balance + ce_price * current_position.quantity
            /\ trades' = Append(trades, bt_trade(current_position, timestamp, ce_price, reason))
            /\ current_position' = None
            /\ ret' = [op |-> "simulate_sell", val |-> "True"]
    /\ UNCHANGED entries

\* simulate_buy(timestamp, ce_price), called on the object
simulate_buy(timestamp, ce_price) ==
    /\ mode = "backtest"
    /\ bt_buy_rejected \/ bt_quantity <= 0 \/ entries < MaxEntries
    /\ simulate_buy_body(timestamp, ce_price)
    /\ UNCHANGED <<mode, liveVars, evalVars, runVars, signalVars>>

\* simulate_sell(timestamp, ce_price, reason), called on the object
simulate_sell(timestamp, ce_price, reason) ==
    /\ mode = "backtest"
    /\ bt_sell_rejected \/ Len(trades) < MaxTrades
    /\ simulate_sell_body(timestamp, ce_price, reason)
    /\ UNCHANGED <<mode, liveVars, evalVars, runVars, signalVars>>

\* the replay moves on to the next candle
Tick ==
    /\ mode = "backtest"
    /\ now < MaxTime
    /\ now' = now + 1
    /\ UNCHANGED <<mode, btVars, available_balance, trading_capital,
                   selected_option, calculated_quantity, position_open,
                   entry_price, entry_time, position_quantity, position_symbol,
                   daily_trades, total_pnl, orders, evalVars, runVars,
                   signalVars, ret, entries>>

BacktestStep ==
    \/ \E p \in BuyPrices : simulate_buy(now, p)
    \/ \E p \in Prices, r \in ExitReasons : simulate_sell(now, p, r)

----------------------------------------------------------------------------
\* IntegratedNiftyCETrader: orders through the broker

\* trading_capital = available_balance * risk_factor (exact for the balances
\* of the model, which are multiples of 10)
capital_of(balance) == (balance * risk_factor_pct) \div 100

\* refresh_option_premium: the option after the quote q came back
\* (q.ok false: the quote call raised or lacks the symbol; nothing changes)
option_after_quote(q) ==
    IF selected_option = None \/ ~q.ok
    THEN selected_option
    ELSE [selected_option EXCEPT !.ltp = q.last_price]

\* what refresh_option_premium returns: the new ltp, or None
quote_result(q) ==
    IF selected_option = None \/ ~q.ok THEN None ELSE [price |-> q.last_price]

\* calculate_quantity() on the option opt with trading capital cap:
\* <<returned quantity, new calculated_quantity>>
calculate_quantity_units(opt, cap) ==
    IF opt = None THEN <<0, calculated_quantity>>
    ELSE IF opt.ltp <= 0 THEN <<0, calculated_quantity>>
    ELSE <<Floor(cap, opt.ltp), Floor(cap, opt.ltp)>>

calculate_quantity(opt, cap) ==
    IF opt = None THEN <<0, calculated_quantity>>
    ELSE LET cost_per_lot == opt.ltp * lot_size
         IN  IF cost_per_lot <= 0 THEN <<0, calculated_quantity>>
             ELSE LET max_lots == Floor(cap, cost_per_lot)
                      quantity == max_lots * lot_size
                  IN  <<quantity, quantity>>

sell_rejected_never == FALSE

\* `if not self.position_open: return False` of execute_sell
sell_rejected_when_flat == ~position_open

record_trade_pnl_per_unit(entry, exit, quantity) == exit - entry

\* record_trade: pnl = (exit_price - entry_price) * quantity
record_trade_pnl(entry, exit, quantity) == (exit - entry) * quantity

\* record_trade: pnl_pct = ((exit_price - entry_price) / entry_price) * 100
record_trade_pnl_pct(entry, exit) == Frac((exit - entry) * 100, entry)

record_trade_number_from_zero == Len(daily_trades)

\* record_trade: 'trade_number': len(self.daily_trades) + 1
record_trade_number == Len(daily_trades) + 1

\* the trade dict built by record_trade at clock reading t, after the
\* time.sleep(2) that follows the order
live_trade(entry, exit, quantity, symbol, exit_reason, t) ==
    [trade_number |-> record_trade_number,
     symbol       |-> symbol,
     entry_price  |-> entry,
     exit_price   |-> exit,
     quantity     |-> quantity,
     pnl          |-> record_trade_pnl(entry, exit, quantity),
     pnl_pct      |-> record_trade_pnl_pct(entry, exit),
     exit_reason  |-> exit_reason,
     entry_time   |-> entry_time,
     exit_time    |-> t]

\* get_order_status: the latest entry of kite.order_history, or None (status
\* "None": no entry, or the call raised)
OrderStatuses ==
    {[status |-> "None", average_price |-> 0],
     [status |-> "REJECTED", average_price |-> 0],
     [status |-> "COMPLETE", average_price |-> 2]}

\* get_filled_price: average_price of a COMPLETE order, else 0
get_filled_price(status) ==
    IF status.status # "None" /\ status.status = "COMPLETE"
    THEN status.average_price
    ELSE 0

exit_price_filled_only(filled_price, current_price) == filled_price

\* exit_price = filled_price if filled_price > 0 else current_price
exit_price_of(filled_price, current_price) ==
    IF filled_price > 0 THEN filled_price ELSE current_price

\* kite.margins: the live balance, or an exception
Margins == {[ok |-> FALSE, live_balance |-> 0]}
           \cup {[ok |-> TRUE, live_balance |-> x] : x \in Balances}

\* kite.quote: the last price, or an exception / no entry for the symbol
Quotes == {[ok |-> FALSE, last_price |-> 0]}
          \cup {[ok |-> TRUE, last_price |-> x] : x \in Premiums}

\* select_best_ce_option: the scanner offers an option at premium p
\* (or nothing, and selected_option is left as it is)
select_best_ce_option ==
    /\ mode = "live"
    /\ \E p \in Premiums :
          selected_option' = [tradingsymbol |-> Symbol, ltp |-> p]
    /\ ret' = [op |-> "select_best_ce_option", val |-> "option"]
    /\ UNCHANGED <<mode, btVars, available_balance, trading_capital,
                   calculated_quantity, position_open, entry_price, entry_time,
                   position_quantity, position_symbol, daily_trades, total_pnl,
                   now, orders, evalVars, runVars, signalVars, entries>>

buy_order_id_always(accepted) == TRUE

\* `if order_id:` of execute_buy: place_buy_order returned an order id
\* (None when kite.place_order raised)
buy_order_id(accepted) == accepted

quantity_never_short(quantity) == FALSE

\* `if quantity <= 0: return False` of execute_buy
quantity_short(quantity) == quantity <= 0

\* The body of execute_buy(), the broker answering with the margins m, the
\* quote q, the order accepted or not (an order id or an exception), and the
\* order status st read after the wait, which ends at clock reading t.  The
\* method does not look at position_open.
execute_buy_body(m, q, accepted, st, t) ==
    LET b   == m.live_balance
        f   == get_filled_price(st)
        opt == option_after_quote(q)
        cq  == calculate_quantity(opt, capital_of(b))
        quantity == cq[1]
    IN
    /\ UNCHANGED <<daily_trades, total_pnl>>
    /\ IF ~m.ok
       THEN \* get_account_balance logs the error and raises it again
            /\ ret' = [op |-> "execute_buy", val |-> "raise"]
            /\ UNCHANGED <<available_balance, trading_capital, selected_option,
                           calculated_quantity, position_open, entry_price,
                           entry_time, position_quantity, position_symbol,
                           orders, entries, now>>
       ELSE
       /\ available_balance' = b
       /\ trading_capital' = capital_of(b)
       /\ selected_option' = opt
       /\ calculated_quantity' = cq[2]
       /\ IF quantity_short(quantity) \/ ~buy_order_id(accepted)
          THEN /\ ret' = [op |-> "execute_buy", val |-> "False"]
               /\ UNCHANGED <<position_open, entry_price, entry_time,
                              position_quantity, position_symbol, orders,
                              entries, now>>
          ELSE /\ entries < MaxEntries
               /\ orders' = [orders EXCEPT !.BUY = @ + 1, !.filled_price = f]
               /\ now' = t                \* time.sleep(2)
               /\ position_open' = TRUE
               /\ entry_price' = IF f > 0 THEN f ELSE opt.ltp
               /\ entry_time' = t
               /\ position_quantity' = quantity
               /\ position_symbol' = opt.tradingsymbol
               /\ entries' = entries + 1
               /\ ret' = [op |-> "execute_buy", val |-> "True"]

\* execute_buy(), called on the object; the wait for the fill takes a tick
execute_buy(m, q, accepted, st) ==
    /\ mode = "live"
    /\ execute_buy_body(m, q, accepted, st, now + 1)
    /\ UNCHANGED <<mode, btVars, evalVars, runVars, signalVars>>

\* The body of execute_sell(reason), the broker answering with quote q,
\* order accepted or not, and the order status st read after the wait, which
\* ends at clock reading t
execute_sell_body(reason, q, accepted, st, t) ==
    /\ IF sell_rejected_when_flat
       THEN /\ ret' = [op |-> "execute_sell", val |-> "False"]
            /\ UNCHANGED liveVars
       ELSE IF selected_option = None
       THEN \* refresh_option_premium() returns None and
            \* self.selected_option['ltp'] raises TypeError
            /\ ret' = [op |-> "execute_sell", val |-> "raise"]
            /\ UNCHANGED liveVars
       ELSE
       LET opt == option_after_quote(q)
           qr  == quote_result(q)
           \* self.refresh_option_premium() or self.selected_option['ltp']
           current_price == IF qr # None /\ qr.price # 0 THEN qr.price ELSE opt.ltp
           exit_price == exit_price_of(get_filled_price(st), current_price)
           trade == live_trade(entry_price, exit_price, position_quantity,
                               position_symbol, reason, t)
       IN
       /\ selected_option' = opt
       /\ UNCHANGED <<available_balance, trading_capital, calculated_quantity>>
       /\ IF ~accepted
          THEN /\ ret' = [op |-> "execute_sell", val |-> "False"]
               /\ UNCHANGED <<position_open, entry_price, entry_time,
                              position_quantity, position_symbol, daily_trades,
                              total_pnl, orders, now>>
          ELSE /\ Len(daily_trades) < MaxTrades
               /\ orders' = [orders EXCEPT !.SELL = @ + 1,
                                            !.filled_price = get_filled_price(st)]
               /\ now' = t                \* time.sleep(2)
               /\ daily_trades' = Append(daily_trades, trade)
               /\ total_pnl' = total_pnl + trade.pnl
               /\ position_open' = FALSE
               /\ entry_price' = 0
               /\ entry_time' = NoneTime
               /\ position_quantity' = 0
               /\ position_symbol' = NoneText
               /\ ret' = [op |-> "execute_sell", val |-> "True"]
    /\ UNCHANGED entries

\* execute_sell(reason), called on the object
execute_sell(reason, q, accepted, st) ==
    /\ mode = "live"
    /\ execute_sell_body(reason, q, accepted, st, now + 1)
    /\ UNCHANGED <<mode, btVars, evalVars, runVars, signalVars>>

LiveStep ==
    \/ select_best_ce_option
    \/ \E m \in Margins, q \in Quotes, a \in BOOLEAN, st \in OrderStatuses :
          execute_buy(m, q, a, st)
    \/ \E r \in ExitReasons, q \in Quotes, a \in BOOLEAN, st \in OrderStatuses :
          execute_sell(r, q, a, st)

----------------------------------------------------------------------------
\* The lifecycle specification: either object, after construction, with its
\* public operations called in any order.

NoWindow == [len |-> 0, tail |-> <<>>]

InitObjects ==
    /\ current_balance = initial_balance
    /\ current_position = None
    /\ trades = <<>>
    /\ available_balance = 0
    /\ trading_capital = 0
    /\ selected_option = None
    /\ calculated_quantity = 0
    /\ position_open = FALSE
    /\ entry_price = 0
    /\ entry_time = NoneTime
    /\ position_quantity = 0
    /\ position_symbol = NoneText
    /\ daily_trades = <<>>
    /\ total_pnl = 0
    /\ orders = [BUY |-> 0, SELL |-> 0, filled_price |-> 0]
    /\ is_running = FALSE
    /\ primary_signal = FALSE
    /\ confirm_signal = FALSE
    /\ last_5min_check = 0
    /\ pc = "constructed"
    /\ df_2min = NoWindow
    /\ df_5min = NoWindow
    /\ idx = 0
    /\ candle = None
    /\ last_5min_check_idx = -1
    /\ ce_len = 0
    /\ ret = [op |-> "__init__", val |-> "None"]
    /\ entries = 0

InitCommon ==
    /\ InitObjects
    /\ now = 1

Init ==
    /\ mode \in {"backtest", "live"}
    /\ InitCommon
    /\ df = NoWindow
    /\ verdict = None

Next == BacktestStep \/ LiveStep \/ Tick

Spec == Init /\ [][Next]_vars

----------------------------------------------------------------------------
\* Signal evaluation.  A window df is what calculate_all_indicators hands
\* back: the candle rows with their indicator columns.  The evaluators read
\* its length and its last three rows, so a window is kept as its length
\* `len` and the sequence `tail` of its last min(len, 3) rows.

\* a float that is undefined (inside an indicator's warm-up)
NaN == -999

\* Python float comparisons: every comparison with NaN is False
Gt(a, b) == a # NaN /\ b # NaN /\ a > b
Lt(a, b) == a # NaN /\ b # NaN /\ a < b
Eq(a, b) == a # NaN /\ b # NaN /\ a = b

Row(dir, st, el, e8, k, r, m) ==
    [close |-> 2, supertrend |-> st, supertrend_direction |-> dir,
     ema_low_8 |-> el, ema_8 |-> e8, ema_9 |-> 2,
     stoch_rsi_k |-> k, rsi_14 |-> r, macd_hist |-> m]

\* the last row: every indicator on either side of each comparison
CurRows ==
    {Row(dir, st, el, e8, k, r, m) :
        dir \in {-1, 1}, st \in {1, 3}, el \in {1, 3}, e8 \in {1, 3},
        k \in {NaN, 40, 60, 80}, r \in {50, 60, 70}, m \in {-2, 0}}
\* the row before it: what `rising` / `improving` / `falling` compare with
PrevRows == {Row(1, 1, el, 1, 70, 55, -1) : el \in {2, 4}}
\* the row before that
Prev2Rows == {Row(1, 1, el, 1, 70, 55, -1) : el \in {3, 5}}

Tails(n) ==
    IF n = 0 THEN {<<>>}
    ELSE IF n = 1 THEN {<<c>> : c \in CurRows}
    ELSE IF n = 2 THEN {<<p, c>> : p \in PrevRows, c \in CurRows}
    ELSE {<<q, p, c>> : q \in Prev2Rows, p \in PrevRows, c \in CurRows}

Windows == UNION {{[len |-> n, tail |-> t] : t \in Tails(n)} : n \in 0..MaxLen}

\* df.iloc[-k]
iloc(d, k) == d.tail[Len(d.tail) - k + 1]

\* all(conditions.values()): a flag counts as itself, the nested 'values'
\* dict as truthy when it is not empty
all_values(conditions) ==
    \A key \in DOMAIN conditions :
        IF key = "values" THEN DOMAIN conditions[key] # {} ELSE conditions[key]

rsi_ok_either(current, prev) ==
    Lt(current.rsi_14, rsi_max) \/ Gt(current.rsi_14, prev.rsi_14)

\* conditions['rsi_ok'] = current['rsi_14'] < self.config['rsi_max'] and rsi_rising
rsi_ok(current, prev) ==
    Lt(current.rsi_14, rsi_max) /\ Gt(current.rsi_14, prev.rsi_14)

stoch_ok_below_only(current, prev) ==
    Lt(current.stoch_rsi_k, stoch_rsi_threshold)

\* conditions['stoch_ok'] =
\*     current['stoch_rsi_k'] < self.config['stoch_rsi_threshold'] or stoch_rising
stoch_ok(current, prev) ==
    \/ Lt(current.stoch_rsi_k, stoch_rsi_threshold)
    \/ Gt(current.stoch_rsi_k, prev.stoch_rsi_k)

\* conditions['macd_ok'] = current['macd_hist'] > 0 or macd_improving
macd_ok(current, prev) ==
    Gt(current.macd_hist, 0) \/ Gt(current.macd_hist, prev.macd_hist)

\* 'BULLISH' if current['supertrend_direction'] == 1 else 'BEARISH'
supertrend_dir(current) ==
    IF Eq(current.supertrend_direction, 1) THEN "BULLISH" ELSE "BEARISH"

\* ce_symbol, the name the live evaluators log and report
ce_symbol ==
    IF selected_option # None THEN selected_option.tradingsymbol
    ELSE "Not Selected"

\* conditions['values'] of the live check_buy_conditions
live_buy_values(current) ==
    [close |-> current.close, supertrend |-> current.supertrend,
     supertrend_dir |-> supertrend_dir(current),
     ema_low |-> current.ema_low_8, ema_8 |-> current.ema_8,
     ema_9 |-> current.ema_9, stoch_rsi |-> current.stoch_rsi_k,
     rsi |-> current.rsi_14, macd_hist |-> current.macd_hist]

\* conditions['values'] of the backtest check_buy_conditions
bt_buy_values(current, prev, stoch_rising, rsi_rising, macd_improving) ==
    [close |-> current.close, supertrend |-> current.supertrend,
     supertrend_dir |-> supertrend_dir(current),
     ema_low |-> current.ema_low_8, ema_8 |-> current.ema_8,
     ema_9 |-> current.ema_9,
     stoch_rsi |-> current.stoch_rsi_k, stoch_rsi_prev |-> prev.stoch_rsi_k,
     stoch_rsi_rising |-> stoch_rising,
     rsi |-> current.rsi_14, rsi_prev |-> prev.rsi_14,
     rsi_rising |-> rsi_rising,
     macd_hist |-> current.macd_hist, macd_hist_prev |-> prev.macd_hist,
     macd_improving |-> macd_improving]

\* `if len(df_2min) < 5` of the two exit evaluators
live_exit_min_rows == 5

\* an exit evaluator that wants more rows than a window holds
exit_min_rows_beyond_window == live_exit_min_rows + 16

bt_exit_min_rows == 5

buy_min_rows_of_exit == live_exit_min_rows

\* `if len(df) < 20` of the two entry evaluators
live_buy_min_rows == 20
bt_buy_min_rows == 20

\* IntegratedNiftyCETrader.check_buy_conditions(df)
live_check_buy_conditions(d) ==
    IF d.len < live_buy_min_rows
    THEN [signal |-> FALSE, details |-> [error |-> "Insufficient data"]]
    ELSE LET current == iloc(d, 1)
             prev    == iloc(d, 2)
             conditions ==
                 [supertrend_bullish  |-> Eq(current.supertrend_direction, 1),
                  close_above_st      |-> Gt(current.close, current.supertrend),
                  close_above_ema_low |-> Gt(current.close, current.ema_low_8),
                  ema_bullish         |-> Gt(current.ema_8, current.ema_9),
                  stoch_ok            |-> stoch_ok(current, prev),
                  rsi_ok              |-> rsi_ok(current, prev),
                  macd_ok             |-> macd_ok(current, prev)]
             \* computed before 'values' is added
             all_conditions_met == all_values(conditions)
         IN  [signal  |-> all_conditions_met,
              details |-> conditions @@ ("values" :> live_buy_values(current))]

\* BacktestNiftyCETrader.check_buy_conditions(df): the same tests written
\* out again, 50 and 65 as literals, 'values' added before all() is taken
bt_check_buy_conditions(d) ==
    IF d.len < bt_buy_min_rows
    THEN [signal |-> FALSE, details |-> <<>>]
    ELSE LET current == iloc(d, 1)
             prev    == iloc(d, 2)
             stoch_rising   == Gt(current.stoch_rsi_k, prev.stoch_rsi_k)
             rsi_rising     == Gt(current.rsi_14, prev.rsi_14)
             macd_improving == Gt(current.macd_hist, prev.macd_hist)
             conditions ==
                 [supertrend_bullish  |-> Eq(current.supertrend_direction, 1),
                  close_above_st      |-> Gt(current.close, current.supertrend),
                  close_above_ema_low |-> Gt(current.close, current.ema_low_8),
                  ema_bullish         |-> Gt(current.ema_8, current.ema_9),
                  stoch_ok            |-> Lt(current.stoch_rsi_k, 50) \/ stoch_rising,
                  rsi_ok              |-> Lt(current.rsi_14, 65) /\ rsi_rising,
                  macd_ok             |-> Gt(current.macd_hist, 0) \/ macd_improving,
                  values              |-> bt_buy_values(current, prev, stoch_rising,
                                                       rsi_rising, macd_improving)]
         IN  [signal |-> all_values(conditions), details |-> conditions]

exit_outcome_bearish_first(exit_trigger_1, exit_trigger_2) ==
    IF exit_trigger_2 THEN [should_exit |-> TRUE, reason |-> "strong_bearish"]
    ELSE IF exit_trigger_1 THEN [should_exit |-> TRUE, reason |-> "ema_low_falling"]
    ELSE [should_exit |-> FALSE, reason |-> NoneText]

\* the if / elif chain of the live check_exit_conditions
live_exit_outcome(exit_trigger_1, exit_trigger_2) ==
    IF exit_trigger_1 THEN [should_exit |-> TRUE, reason |-> "ema_low_falling"]
    ELSE IF exit_trigger_2 THEN [should_exit |-> TRUE, reason |-> "strong_bearish"]
    ELSE [should_exit |-> FALSE, reason |-> NoneText]

\* IntegratedNiftyCETrader.check_exit_conditions(df_2min)
live_check_exit_conditions(d) ==
    IF d.len < live_exit_min_rows
    THEN [should_exit |-> FALSE, reason |-> NoneText,
          details |-> [error |-> "Insufficient data"]]
    ELSE LET current == iloc(d, 1)
             prev    == iloc(d, 2)
             prev2   == iloc(d, 3)
             ema_low_falling == /\ Lt(current.ema_low_8, prev.ema_low_8)
                                /\ Lt(prev.ema_low_8, prev2.ema_low_8)
             price_below_ema == Lt(current.close, current.ema_low_8)
             exit_trigger_1  == ema_low_falling /\ price_below_ema
             strong_bearish  == /\ Eq(current.supertrend_direction, -1)
                                /\ Lt(current.ema_8, current.ema_9)
                                /\ Lt(current.close, current.ema_low_8)
             details == [ema_low_falling |-> ema_low_falling,
                         price_below_ema |-> price_below_ema,
                         strong_bearish  |-> strong_bearish,
                         ce_symbol       |-> ce_symbol,
                         values |-> [close          |-> current.close,
                                     ema_low        |-> current.ema_low_8,
                                     supertrend_dir |-> supertrend_dir(current),
                                     ema_8          |-> current.ema_8,
                                     ema_9          |-> current.ema_9]]
         IN  live_exit_outcome(exit_trigger_1, strong_bearish)
             @@ ("details" :> details)

\* BacktestNiftyCETrader.check_exit_conditions(df_2min)
bt_check_exit_conditions(d) ==
    IF d.len < bt_exit_min_rows
    THEN [should_exit |-> FALSE, reason |-> NoneText, details |-> <<>>]
    ELSE LET current == iloc(d, 1)
             prev    == iloc(d, 2)
             prev2   == iloc(d, 3)
             ema_low_falling == /\ Lt(current.ema_low_8, prev.ema_low_8)
                                /\ Lt(prev.ema_low_8, prev2.ema_low_8)
             price_below_ema == Lt(current.close, current.ema_low_8)
             exit_trigger_1  == ema_low_falling /\ price_below_ema
             strong_bearish  == /\ Eq(current.supertrend_direction, -1)
                                /\ Lt(current.ema_8, current.ema_9)
                                /\ Lt(current.close, current.ema_low_8)
         IN  IF exit_trigger_1
             THEN [should_exit |-> TRUE, reason |-> "ema_low_falling", details |-> <<>>]
             ELSE IF strong_bearish
             THEN [should_exit |-> TRUE, reason |-> "strong_bearish", details |-> <<>>]
             ELSE [should_exit |-> FALSE, reason |-> NoneText, details |-> <<>>]

\* One call of an evaluator on the window df
Evaluate(fn, result) ==
    /\ mode = "eval"
    /\ verdict' = [fn |-> fn] @@ result
    /\ ret' = [op |-> fn, val |-> "tuple"]
    /\ UNCHANGED <<mode, btVars, liveVars, df, runVars, signalVars, entries>>

LiveCheckBuy == Evaluate("live.check_buy_conditions", live_check_buy_conditions(df))
BtCheckBuy == Evaluate("backtest.check_buy_conditions", bt_check_buy_conditions(df))
LiveCheckExit == Evaluate("live.check_exit_conditions", live_check_exit_conditions(df))
BtCheckExit == Evaluate("backtest.check_exit_conditions", bt_check_exit_conditions(df))

InitEval ==
    /\ mode = "eval"
    /\ InitCommon
    /\ df \in Windows
    /\ verdict = None

NextEval == LiveCheckBuy \/ BtCheckBuy \/ LiveCheckExit \/ BtCheckExit

SpecEval == InitEval /\ [][NextEval]_vars

----------------------------------------------------------------------------
\* IntegratedNiftyCETrader: market hours.  In the clock and driver
\* specifications a tick of the clock is a second of the trading day, so
\* 09:15:00 is tick 9 * 3600 + 15 * 60.

market_open_hour == 9
market_open_minute == 15
market_close_hour == 15
market_close_minute == 30
stop_new_trades_minutes == 15

\* now.replace(hour=h, minute=m, second=0, microsecond=0)
at(h, m) == h * 3600 + m * 60

\* is_market_open(), the clock reading t
is_market_open(t) ==
    LET market_open  == at(market_open_hour, market_open_minute)
        market_close == at(market_close_hour, market_close_minute)
    IN  market_open <= t /\ t <= market_close

\* get_time_to_market_close(): int(delta.total_seconds() / 60)
get_time_to_market_close(t) ==
    LET market_close == at(market_close_hour, market_close_minute)
    IN  IF t > market_close THEN 0 ELSE (market_close - t) \div 60

\* should_stop_new_trades()
should_stop_new_trades(t) ==
    get_time_to_market_close(t) < stop_new_trades_minutes

\* is_watch_only_period(): watch_start <= now < trading_start
is_watch_only_period(t) ==
    LET watch_start   == at(9, 25)
        trading_start == at(9, 30)
    IN  watch_start <= t /\ t < trading_start

\* can_trade()
can_trade(t) ==
    IF ~is_market_open(t) THEN FALSE
    ELSE IF is_watch_only_period(t) THEN FALSE
    ELSE IF should_stop_new_trades(t) THEN FALSE
    ELSE TRUE

\* Clock readings: every minute of the day and every second of the twenty
\* around each boundary of the trading window
Boundaries == {at(9, 15), at(9, 25), at(9, 30), at(15, 15), at(15, 30)}
ClockTimes ==
    {60 * k : k \in 0..1439}
    \cup UNION {{b + d - 10 : d \in 0..20} : b \in Boundaries}

\* One call of a market-hours method at the clock reading now
AskClock(fn, result) ==
    /\ mode = "clock"
    /\ verdict' = [fn |-> fn, result |-> result]
    /\ ret' = [op |-> fn, val |-> "value"]
    /\ UNCHANGED <<mode, btVars, liveVars, df, runVars, signalVars, entries>>

IsMarketOpen == AskClock("is_market_open", is_market_open(now))
IsWatchOnlyPeriod == AskClock("is_watch_only_period", is_watch_only_period(now))
ShouldStopNewTrades == AskClock("should_stop_new_trades", should_stop_new_trades(now))
CanTrade == AskClock("can_trade", can_trade(now))

InitClock ==
    /\ mode = "clock"
    /\ InitObjects
    /\ now \in ClockTimes
    /\ df = NoWindow
    /\ verdict = None

NextClock == IsMarketOpen \/ IsWatchOnlyPeriod \/ ShouldStopNewTrades \/ CanTrade

SpecClock == InitClock /\ [][NextClock]_vars

----------------------------------------------------------------------------
\* BacktestNiftyCETrader._calculate_metrics.  Float quotients are exact
\* fractions <<numerator, denominator>>; a figure that is 0 is <<0, 1>>.

Zero == <<0, 1>>

\* a > b for two fractions with positive denominators
FracGt(a, b) == a[1] * b[2] > b[1] * a[2]

\* sum(t['pnl'] for t in trades)
RECURSIVE sum_pnl(_)
sum_pnl(ts) == IF ts = <<>> THEN 0 ELSE ts[1].pnl + sum_pnl(Tail(ts))

\* sum of the durations (exit_time - entry_time), in clock ticks
RECURSIVE sum_durations(_)
sum_durations(ts) ==
    IF ts = <<>> THEN 0
    ELSE (ts[1].exit_time - ts[1].entry_time) + sum_durations(Tail(ts))

\* np.mean of the pnl of the trades ts, 0 for no trade
mean_pnl(ts) == IF ts = <<>> THEN Zero ELSE Frac(sum_pnl(ts), Len(ts))

\* balance_curve: initial_balance, then each trade's pnl added in ledger order
balance_curve(ts) ==
    [i \in 1..(Len(ts) + 1) |-> initial_balance + sum_pnl(SubSeq(ts, 1, i - 1))]

\* drawdown = ((peak - balance) / peak) * 100
drawdown(peak, balance) == Frac((peak - balance) * 100, peak)

peak_kept(peak, balance) == peak

\* `if balance > peak: peak = balance`
running_peak(peak, balance) == IF balance > peak THEN balance ELSE peak

\* the loop `for balance in balance_curve`, from element i on
RECURSIVE drawdown_loop(_, _, _, _)
drawdown_loop(curve, i, peak, max_drawdown) ==
    IF i > Len(curve) THEN max_drawdown
    ELSE LET balance == curve[i]
             new_peak == running_peak(peak, balance)
             dd == drawdown(new_peak, balance)
         IN  drawdown_loop(curve, i + 1, new_peak,
                           IF FracGt(dd, max_drawdown) THEN dd ELSE max_drawdown)

max_drawdown_of(ts) ==
    LET curve == balance_curve(ts)
    IN  drawdown_loop(curve, 1, curve[1], Zero)

\* np.std(returns) > 0: the returns are not all the same
std_positive(ts) == \E i, j \in 1..Len(ts) : ts[i].pnl_pct # ts[j].pnl_pct

\* the dict _calculate_metrics returns for the ledger ts and the balance b
\* (of sharpe_ratio, which takes a square root, only whether it is 0)
calculate_metrics(ts, b) ==
    IF ts = <<>>
    THEN [total_trades |-> 0, winning_trades |-> 0, losing_trades |-> 0,
          win_rate |-> Zero, total_pnl |-> 0, total_pnl_pct |-> Zero,
          avg_win |-> Zero, avg_loss |-> Zero, max_drawdown |-> Zero,
          sharpe_ratio_is_zero |-> TRUE,
          avg_trade_duration_minutes |-> Zero,
          final_balance |-> b, initial_balance |-> initial_balance,
          trades |-> <<>>]
    ELSE LET total_pnl_ == sum_pnl(ts)
             winning_trades == SelectSeq(ts, LAMBDA t : t.pnl > 0)
             losing_trades == SelectSeq(ts, LAMBDA t : t.pnl < 0)
         IN  [total_trades |-> Len(ts),
              winning_trades |-> Len(winning_trades),
              losing_trades |-> Len(losing_trades),
              win_rate |-> Frac(Len(winning_trades) * 100, Len(ts)),
              total_pnl |-> total_pnl_,
              total_pnl_pct |-> Frac(total_pnl_ * 100, initial_balance),
              avg_win |-> mean_pnl(winning_trades),
              avg_loss |-> mean_pnl(losing_trades),
              max_drawdown |-> max_drawdown_of(ts),
              sharpe_ratio_is_zero |-> ~(Len(ts) > 1 /\ std_positive(ts)),
              avg_trade_duration_minutes |-> Frac(sum_durations(ts), 60 * Len(ts)),
              final_balance |-> b, initial_balance |-> initial_balance,
              trades |-> ts]

\* ledgers for _calculate_metrics: up to MaxEntries trades of one lot, each
\* held four minutes, bought and sold at prices 1 to 3
LedgerPrices == {1, 2, 3}
LedgerTrade(n, entry, exit) ==
    [trade_number |-> n,
     entry_time   |-> 36000 + 600 * n,
     exit_time    |-> 36000 + 600 * n + 240,
     entry_price  |-> entry,
     exit_price   |-> exit,
     quantity     |-> bt_quantity,
     pnl          |-> (exit - entry) * bt_quantity,
     pnl_pct      |-> Frac((exit - entry) * 100, entry),
     exit_reason  |-> "strong_bearish"]
Ledgers ==
    UNION {{[i \in 1..n |-> LedgerTrade(i, e[i], x[i])] :
               e \in [1..n -> LedgerPrices], x \in [1..n -> LedgerPrices]} :
           n \in 0..MaxEntries}

\* _calculate_metrics(), called on the object
CalculateMetrics ==
    /\ mode = "metrics"
    /\ verdict' = [fn |-> "_calculate_metrics",
                   result |-> calculate_metrics(trades, current_balance)]
    /\ ret' = [op |-> "_calculate_metrics", val |-> "value"]
    /\ UNCHANGED <<mode, btVars, liveVars, df, runVars, signalVars, entries>>

\* the backtester after a replay that left the ledger l
InitMetrics ==
    /\ mode = "metrics"
    /\ \E l \in Ledgers :
          /\ trades = l
          /\ current_balance = initial_balance + sum_pnl(l)
          /\ entries = Len(l)
    /\ current_position = None
    /\ available_balance = 0
    /\ trading_capital = 0
    /\ selected_option = None
    /\ calculated_quantity = 0
    /\ position_open = FALSE
    /\ entry_price = 0
    /\ entry_time = NoneTime
    /\ position_quantity = 0
    /\ position_symbol = NoneText
    /\ daily_trades = <<>>
    /\ total_pnl = 0
    /\ orders = [BUY |-> 0, SELL |-> 0, filled_price |-> 0]
    /\ is_running = FALSE
    /\ primary_signal = FALSE
    /\ confirm_signal = FALSE
    /\ last_5min_check = 0
    /\ pc = "returned"
    /\ df_2min = NoWindow
    /\ df_5min = NoWindow
    /\ idx = 0
    /\ candle = None
    /\ last_5min_check_idx = -1
    /\ ce_len = 0
    /\ ret = [op |-> "run", val |-> "metrics"]
    /\ now = 1
    /\ df = NoWindow
    /\ verdict = None

NextMetrics == CalculateMetrics

SpecMetrics == InitMetrics /\ [][NextMetrics]_vars

----------------------------------------------------------------------------
\* BacktestNiftyCETrader.run: the replay of one trading day.  The candles of
\* ce_df are read one per iteration; with each comes what the two stored
\* series hold up to its time (the last 20 rows of each, with indicators).

\* windows with telling last rows: one on which all seven entry conditions
\* hold when the close is 2 (with 20 rows, and with 8), one on which only
\* Trigger B holds, one on which only Trigger A holds; the last row's close
\* is the close p of the candle the window ends with
BuyRow == Row(1, 1, 1, 3, 40, 60, 0)
TriggerBRow == Row(-1, 1, 3, 1, 40, 50, -2)
TriggerARow == Row(1, 1, 3, 3, 40, 50, -2)
WindowOf(n, cur, p, prev_ema_low) ==
    [len |-> n,
     tail |-> <<Row(1, 1, prev_ema_low + 1, 1, 70, 55, -1),
                Row(1, 1, prev_ema_low, 1, 70, 55, -1),
                [cur EXCEPT !.close = p]>>]
RunWindowsAt(p) ==
    {WindowOf(20, BuyRow, p, 2), WindowOf(8, BuyRow, p, 2),
     WindowOf(20, TriggerBRow, p, 2), WindowOf(20, TriggerARow, p, 4)}
RunWindows == UNION {RunWindowsAt(p) : p \in Prices}

\* the times of the candles of the day: 2-minute candles from 09:15 on,
\* the loop starting at index 20
CandleTimes ==
    {at(9, 55), at(11, 1), at(13, 1), at(15, 13), at(15, 15), at(15, 17),
     at(15, 29)}
Candles == [date : CandleTimes, close : Prices]

\* ce_option_data_2min[date <= current_time].tail(20): from index 20 on it
\* has 20 rows, the last of them the candle c itself
ConfirmWindows(c) == {w \in RunWindowsAt(c.close) : w.len = 20}

\* ce_option_data_5min[date <= current_time].tail(20): the 5-minute candles
\* from 09:15 up to the time of c
PrimaryWindows(c) ==
    {w \in RunWindows : w.len <= ((c.date - at(9, 15)) \div 300) + 1}

hour_of(t) == t \div 3600
minute_of(t) == (t % 3600) \div 60

\* dataframe.empty
empty(d) == d.len = 0

confirmation_alone(primary, confirm) == confirm

\* `if primary_signal and confirm_signal` of run
double_confirmation(primary, confirm) == primary /\ confirm

bt_never_open_at_end == FALSE

\* `if self.current_position` after the loop of run
bt_open_at_end == current_position # None

primary_always_due(i, last) == TRUE

\* `if idx - last_5min_check_idx >= 2` of run
primary_due(i, last) == i - last >= 2

bt_stop_never(hour, minute) == FALSE

\* `if hour == 15 and minute >= 15` of run
bt_stop_new_trades(hour, minute) == hour = 15 /\ minute >= 15

\* a loop over every candle of the series
first_index_none == 20 - 20

\* `for idx in range(20, len(ce_df))`: the first index of the loop
first_index == 20

\* the configured test date, and the dates at which the backtest is run
\* (days; the wall clock of the backtest object is read as a date)
test_date == 1
RunDays == {test_date - 1, test_date, test_date + 1}

\* validate_test_date() when today is the date d (the configured dates
\* being a weekday and an expiry not before it)
validate_test_date(d) == IF test_date > d THEN "raise" ELSE "passed"

\* the number of 2-minute candles loaded: none, too few for the loop to
\* start, or up to MaxCandles past the first index
SeriesLengths ==
    {0, 1, first_index} \cup {first_index + k : k \in 1..MaxCandles}

\* run() up to the loop: load_historical_data validates the dates against
\* today's date and loads n candles (it raises when there are none)
BtRunStart(n) ==
    /\ mode = "btrun"
    /\ pc = "constructed"
    /\ IF validate_test_date(now) = "raise"
       THEN /\ pc' = "returned"
            /\ ret' = [op |-> "validate_test_date", val |-> "raise"]
            /\ UNCHANGED <<idx, last_5min_check_idx, ce_len>>
       ELSE IF n = 0
       THEN /\ pc' = "returned"
            /\ ret' = [op |-> "load_historical_data", val |-> "raise"]
            /\ UNCHANGED <<idx, last_5min_check_idx, ce_len>>
       ELSE /\ pc' = "loop"
            /\ ce_len' = n
            /\ idx' = first_index
            /\ last_5min_check_idx' = -1
            /\ ret' = [op |-> "run", val |-> "loop"]
    /\ UNCHANGED <<mode, btVars, liveVars, evalVars, signalVars, df_2min,
                   df_5min, candle, entries>>

\* one iteration of `for idx in range(20, len(ce_df))` on the candle c,
\* ce_data_2min and ce_data_5min being the windows w2 and w5
BtRunCandle(c, w2, w5) ==
    LET current_time == c.date
        ce_price == c.close
        hour == hour_of(current_time)
        minute == minute_of(current_time)
        exit == bt_check_exit_conditions(w2)
        confirm == bt_check_buy_conditions(w2).signal
        checked == primary_due(idx, last_5min_check_idx)
        primary == IF checked THEN bt_check_buy_conditions(w5).signal ELSE FALSE
    IN
    /\ mode = "btrun"
    /\ pc = "loop"
    /\ idx < ce_len
    /\ candle # None => c.date > candle.date
    /\ candle' = c
    /\ df_2min' = w2
    /\ df_5min' = w5
    /\ IF hour = 9 /\ minute < 30
       THEN \* skipped, watch-only
            /\ ret' = [op |-> "run", val |-> "continue"]
            /\ UNCHANGED <<btVars, entries, last_5min_check_idx,
                           primary_signal, confirm_signal, pc>>
            /\ idx' = idx + 1
       ELSE IF bt_stop_new_trades(hour, minute)
       THEN \* stop: force the exit and leave the loop
            /\ IF current_position # None
               THEN simulate_sell_body(current_time, ce_price, "market_close")
               ELSE /\ ret' = [op |-> "run", val |-> "break"]
                    /\ UNCHANGED <<btVars, entries>>
            /\ pc' = "after_loop"
            /\ UNCHANGED <<idx, last_5min_check_idx, primary_signal,
                           confirm_signal>>
       ELSE IF empty(w2) \/ empty(w5)
       THEN /\ ret' = [op |-> "run", val |-> "continue"]
            /\ UNCHANGED <<btVars, entries, last_5min_check_idx,
                           primary_signal, confirm_signal, pc>>
            /\ idx' = idx + 1
       ELSE IF current_position # None
       THEN /\ IF exit.should_exit
               THEN simulate_sell_body(current_time, ce_price, exit.reason)
               ELSE /\ ret' = [op |-> "check_exit_conditions", val |-> "False"]
                    /\ UNCHANGED <<btVars, entries>>
            /\ idx' = idx + 1
            /\ UNCHANGED <<last_5min_check_idx, primary_signal,
                           confirm_signal, pc>>
       ELSE /\ confirm_signal' = confirm
            /\ primary_signal' = primary
            /\ last_5min_check_idx' = IF checked THEN idx ELSE last_5min_check_idx
            /\ IF double_confirmation(primary, confirm)
               THEN simulate_buy_body(current_time, ce_price)
               ELSE /\ ret' = [op |-> "check_buy_conditions", val |-> "False"]
                    /\ UNCHANGED <<btVars, entries>>
            /\ idx' = idx + 1
            /\ pc' = pc
    /\ UNCHANGED <<mode, liveVars, evalVars, is_running, last_5min_check,
                   ce_len>>

\* the loop runs out of candles
BtRunLoopEnd ==
    /\ mode = "btrun"
    /\ pc = "loop"
    /\ idx >= ce_len
    /\ pc' = "after_loop"
    /\ ret' = [op |-> "run", val |-> "end of loop"]
    /\ UNCHANGED <<mode, btVars, liveVars, evalVars, signalVars, df_2min,
                   df_5min, idx, candle, last_5min_check_idx, ce_len, entries>>

\* after the loop: the forced exit at ce_df.iloc[-1], and the metrics
BtRunFinish ==
    /\ mode = "btrun"
    /\ pc = "after_loop"
    /\ IF bt_open_at_end
       THEN simulate_sell_body(candle.date, candle.close, "market_close")
       ELSE UNCHANGED <<btVars, entries>> /\ ret' = [op |-> "run", val |-> "metrics"]
    /\ pc' = "returned"
    /\ verdict' = [fn |-> "_calculate_metrics",
                   result |-> calculate_metrics(trades', current_balance')]
    /\ UNCHANGED <<mode, liveVars, df, signalVars, df_2min, df_5min,
                   idx, candle, last_5min_check_idx, ce_len>>

InitBtRun ==
    /\ mode = "btrun"
    /\ InitObjects
    /\ now \in RunDays
    /\ df = NoWindow
    /\ verdict = None

NextBtRun ==
    \/ \E n \in SeriesLengths : BtRunStart(n)
    \/ \E c \in Candles :
          \E w2 \in ConfirmWindows(c), w5 \in PrimaryWindows(c) :
              BtRunCandle(c, w2, w5)
    \/ BtRunLoopEnd
    \/ BtRunFinish

SpecBtRun == InitBtRun /\ [][NextBtRun]_vars

----------------------------------------------------------------------------
\* The candle windows handed to the evaluators.  A candle is named by its
\* day and its place in the day, <<day, k>> being the candle that opens k
\* intervals after 09:15.

\* the candle intervals, in minutes
Intervals == {2, 5}

\* s.tail(n)
tail(s, n) ==
    IF Len(s) <= n THEN s ELSE SubSeq(s, Len(s) - n + 1, Len(s))

\* the candles of the test day of the given interval dated t or earlier
TodayCandles(interval, t) ==
    [k \in 1..(((t - at(9, 15)) \div (interval * 60)) + 1) |-> <<test_date, k - 1>>]

\* h candles of the days before the test day
EarlierCandles(h) == [k \in 1..h |-> <<test_date - 1, k - 1>>]

\* ce_option_data[ce_option_data['date'] <= current_time].tail(20) of run:
\* the store holds the candles of the test day from 09:15 to 15:30
bt_window(interval, current_time) ==
    tail(TodayCandles(interval, current_time), 20)

\* get_historical_data(interval) polled at the time t: every candle from
\* five days before t up to t, of which h are of earlier days
live_window(interval, t, h) ==
    EarlierCandles(h) \o TodayCandles(interval, t)

\* the two windows of one interval at the replay step i
WindowsAt(i, interval, h) ==
    LET current_time == at(9, 15) + 120 * i
    IN
    /\ mode = "window"
    /\ idx' = i
    /\ verdict' = [fn |-> "window", interval |-> interval,
                   backtest |-> bt_window(interval, current_time),
                   live |-> live_window(interval, current_time, h)]
    /\ ret' = [op |-> "get_historical_data", val |-> "DataFrame"]
    /\ UNCHANGED <<mode, btVars, liveVars, df, pc, df_2min, df_5min, candle,
                   last_5min_check_idx, ce_len, signalVars, entries>>

InitWindow ==
    /\ mode = "window"
    /\ InitCommon
    /\ df = NoWindow
    /\ verdict = None

NextWindow ==
    \E i \in first_index..(first_index + MaxCandles), interval \in Intervals,
       h \in 0..MaxLen :
        WindowsAt(i, interval, h)

SpecWindow == InitWindow /\ [][NextWindow]_vars

----------------------------------------------------------------------------
\* IntegratedNiftyCETrader.run: the live trading day.  Each action is one
\* pass of one of its loops (or of a loop of wait_for_buy_signal or
\* monitor_for_exit, which run() calls); it reads the clock once, and the
\* clock reading of the next pass is at least the time slept later.

primary_check_seconds == 10
confirm_check_seconds == 5

\* clock readings of the day: before the open, the watch-only period, ten
\* seconds of the morning, the two sides of the stop-new-trades cutoff, and
\* after the close
LiveTimes ==
    {at(9, 10), at(9, 27), at(10, 0), at(10, 0) + 5, at(10, 0) + 10,
     at(15, 14) + 58, at(15, 15) + 2, at(15, 30) + 5}

LastTime == at(15, 30) + 5

\* the clock readings possible once n seconds have passed: the first
\* reading of the day from now + n on, or the one after it (the day of the
\* model ends at LastTime)
After(n) ==
    LET from == {t \in LiveTimes : t >= now + n}
        first == CHOOSE t \in from : \A u \in from : t <= u
        rest == from \ {first}
    IN  IF from = {} THEN {LastTime}
        ELSE IF rest = {} THEN {first}
        ELSE {first, CHOOSE t \in rest : \A u \in rest : t <= u}

\* get_historical_data(interval, use_ce_option=True): twenty candles ending
\* in a row that meets the entry conditions, or in a bearish row, or an
\* empty frame
LiveWindows ==
    {WindowOf(20, BuyRow, 2, 2), WindowOf(20, TriggerBRow, 2, 2), NoWindow}

\* select_best_ce_option of the scanner: an option, or None
Selections == {None} \cup {[tradingsymbol |-> Symbol, ltp |-> p] : p \in Premiums}

Running == {"wait_open", "cycle", "wait", "phase5", "monitor", "phase7",
            "end_of_day"}

\* `finally: self.is_running = False`, run() returning or raising
LiveRunEnds(how) ==
    /\ pc' = "returned"
    /\ is_running' = FALSE
    /\ ret' = [op |-> "run", val |-> how]

\* run() from its first line to the trading loop
LiveRunStart(m, t) ==
    /\ mode = "liverun"
    /\ pc = "constructed"
    /\ IF ~m.ok
       THEN \* get_account_balance raises
            /\ LiveRunEnds("raise")
            /\ UNCHANGED <<available_balance, trading_capital, now>>
       ELSE /\ is_running' = TRUE
            /\ available_balance' = m.live_balance
            /\ trading_capital' = capital_of(m.live_balance)
            /\ pc' = IF is_market_open(now) THEN "cycle" ELSE "wait_open"
            /\ ret' = [op |-> "get_account_balance", val |-> "value"]
            /\ t \in After(0) /\ now' = t
    /\ UNCHANGED <<mode, btVars, selected_option, calculated_quantity,
                   position_open, entry_price, entry_time, position_quantity,
                   position_symbol, daily_trades, total_pnl, orders, evalVars,
                   df_2min, df_5min, idx, candle, last_5min_check_idx, ce_len,
                   primary_signal, confirm_signal, last_5min_check, entries>>

\* `while not self.is_market_open() and self.is_running: time.sleep(60)`
LiveWaitOpen(t) ==
    /\ mode = "liverun"
    /\ pc = "wait_open"
    /\ IF ~is_market_open(now) /\ is_running
       THEN /\ t \in After(60)
            /\ pc' = pc
            /\ ret' = [op |-> "time.sleep", val |-> "60"]
       ELSE /\ t \in After(0)
            /\ pc' = "cycle"
            /\ ret' = [op |-> "is_market_open", val |-> "leave"]
    /\ now' = t
    /\ UNCHANGED <<mode, btVars, available_balance, trading_capital,
                   selected_option, calculated_quantity, position_open,
                   entry_price, entry_time, position_quantity, position_symbol,
                   daily_trades, total_pnl, orders, evalVars, df_2min, df_5min,
                   idx, candle, last_5min_check_idx, ce_len, signalVars, entries>>

\* one pass of `while self.is_running and self.is_market_open()` up to the
\* call of wait_for_buy_signal: the scanner answers with the selection s,
\* the broker with the margins m
LiveCycle(s, m, t) ==
    LET opt == IF s = None THEN selected_option ELSE s
        cq  == calculate_quantity(opt, capital_of(m.live_balance))
    IN
    /\ mode = "liverun"
    /\ pc = "cycle"
    /\ UNCHANGED <<mode, btVars, position_open, entry_price, entry_time,
                   position_quantity, position_symbol, daily_trades, total_pnl,
                   orders, evalVars, df_2min, df_5min, idx, candle,
                   last_5min_check_idx, ce_len, primary_signal, confirm_signal,
                   last_5min_check, entries>>
    /\ IF ~(is_running /\ is_market_open(now))
       THEN /\ pc' = "end_of_day"
            /\ ret' = [op |-> "run", val |-> "loop ends"]
            /\ t \in After(0) /\ now' = t
            /\ UNCHANGED <<available_balance, trading_capital, selected_option,
                           calculated_quantity, is_running>>
       ELSE IF should_stop_new_trades(now)
       THEN /\ pc' = "end_of_day"
            /\ ret' = [op |-> "run", val |-> "break"]
            /\ t \in After(0) /\ now' = t
            /\ UNCHANGED <<available_balance, trading_capital, selected_option,
                           calculated_quantity, is_running>>
       ELSE IF is_watch_only_period(now)
       THEN \* scan and display, no trading
            /\ selected_option' = opt
            /\ IF s = None
               THEN /\ t \in After(10) /\ now' = t
                    /\ pc' = pc
                    /\ ret' = [op |-> "time.sleep", val |-> "10"]
                    /\ UNCHANGED <<available_balance, trading_capital,
                                   calculated_quantity, is_running>>
               ELSE IF ~m.ok
               THEN /\ LiveRunEnds("raise")
                    /\ UNCHANGED <<available_balance, trading_capital,
                                   calculated_quantity, now>>
               ELSE /\ available_balance' = m.live_balance
                    /\ trading_capital' = capital_of(m.live_balance)
                    /\ calculated_quantity' = cq[2]
                    /\ t \in After(10) /\ now' = t
                    /\ pc' = pc
                    /\ ret' = [op |-> "time.sleep", val |-> "10"]
                    /\ UNCHANGED is_running
       ELSE IF ~can_trade(now)
       THEN /\ t \in After(10) /\ now' = t
            /\ pc' = pc
            /\ ret' = [op |-> "time.sleep", val |-> "10"]
            /\ UNCHANGED <<available_balance, trading_capital, selected_option,
                           calculated_quantity, is_running>>
       ELSE
       /\ selected_option' = opt
       /\ IF s = None
          THEN /\ t \in After(30) /\ now' = t
               /\ pc' = pc
               /\ ret' = [op |-> "time.sleep", val |-> "30"]
               /\ UNCHANGED <<available_balance, trading_capital,
                              calculated_quantity, is_running>>
          ELSE IF ~m.ok
          THEN /\ LiveRunEnds("raise")
               /\ UNCHANGED <<available_balance, trading_capital,
                              calculated_quantity, now>>
          ELSE /\ available_balance' = m.live_balance
               /\ trading_capital' = capital_of(m.live_balance)
               /\ calculated_quantity' = cq[2]
               /\ UNCHANGED is_running
               /\ IF cq[1] <= 0
                  THEN /\ t \in After(60) /\ now' = t
                       /\ pc' = pc
                       /\ ret' = [op |-> "time.sleep", val |-> "60"]
                  ELSE \* wait_for_buy_signal is called
                       /\ t \in After(0) /\ now' = t
                       /\ pc' = "wait"
                       /\ ret' = [op |-> "wait_for_buy_signal", val |-> "called"]

\* one pass of the loop of wait_for_buy_signal: the quote q comes back, and
\* the candles of the two timeframes are w2 and w5 (w5 is fetched only when
\* primary_check_seconds have passed since the last primary check)
LiveWaitPoll(q, w2, w5, t) ==
    LET confirm == IF ~empty(w2) THEN live_check_buy_conditions(w2).signal
                   ELSE FALSE
        checked == now - last_5min_check >= primary_check_seconds
        primary == IF checked
                   THEN IF ~empty(w5) THEN live_check_buy_conditions(w5).signal
                        ELSE FALSE
                   ELSE primary_signal
    IN
    /\ mode = "liverun"
    /\ pc = "wait"
    /\ UNCHANGED <<mode, btVars, available_balance, trading_capital,
                   calculated_quantity, position_open, entry_price, entry_time,
                   position_quantity, position_symbol, daily_trades, total_pnl,
                   orders, evalVars, idx, candle, last_5min_check_idx, ce_len,
                   is_running, entries>>
    /\ now' = t
    /\ IF ~(is_running /\ ~position_open)
       THEN /\ pc' = "phase7"
            /\ ret' = [op |-> "wait_for_buy_signal", val |-> "False"]
            /\ t \in After(0)
            /\ UNCHANGED <<selected_option, df_2min, df_5min, primary_signal,
                           confirm_signal, last_5min_check>>
       ELSE IF ~is_market_open(now)
       THEN /\ pc' = "phase7"
            /\ ret' = [op |-> "wait_for_buy_signal", val |-> "False"]
            /\ t \in After(0)
            /\ UNCHANGED <<selected_option, df_2min, df_5min, primary_signal,
                           confirm_signal, last_5min_check>>
       ELSE IF is_watch_only_period(now)
       THEN /\ pc' = pc
            /\ ret' = [op |-> "time.sleep", val |-> "5"]
            /\ t \in After(confirm_check_seconds)
            /\ UNCHANGED <<selected_option, df_2min, df_5min, primary_signal,
                           confirm_signal, last_5min_check>>
       ELSE IF should_stop_new_trades(now)
       THEN /\ pc' = "phase7"
            /\ ret' = [op |-> "wait_for_buy_signal", val |-> "False"]
            /\ t \in After(0)
            /\ UNCHANGED <<selected_option, df_2min, df_5min, primary_signal,
                           confirm_signal, last_5min_check>>
       ELSE
       /\ selected_option' = option_after_quote(q)
       /\ IF selected_option = None
          THEN /\ pc' = pc
               /\ ret' = [op |-> "time.sleep", val |-> "5"]
               /\ t \in After(confirm_check_seconds)
               /\ UNCHANGED <<df_2min, df_5min, primary_signal, confirm_signal,
                              last_5min_check>>
          ELSE /\ df_2min' = w2
               /\ df_5min' = w5
               /\ confirm_signal' = confirm
               /\ primary_signal' = primary
               /\ last_5min_check' = IF checked THEN now ELSE last_5min_check
               /\ IF primary /\ confirm /\ can_trade(now)
                  THEN /\ pc' = "phase5"
                       /\ ret' = [op |-> "wait_for_buy_signal", val |-> "True"]
                       /\ t \in After(0)
                  ELSE /\ pc' = pc
                       /\ ret' = [op |-> "time.sleep", val |-> "5"]
                       /\ t \in After(confirm_check_seconds)

phase5_unchecked(t) == TRUE

\* `can_trade_before_buy = self.can_trade()` of phase 5
phase5_can_trade(t) == can_trade(t)

\* phase 5 of run(): the second look at can_trade(), and execute_buy()
\* (the day of the model has at most MaxTrades entries)
LivePhase5(m, q, accepted, st, t) ==
    /\ mode = "liverun"
    /\ pc = "phase5"
    /\ entries < MaxTrades
    /\ UNCHANGED <<mode, btVars, evalVars, df_2min, df_5min, idx, candle,
                   last_5min_check_idx, ce_len, primary_signal, confirm_signal,
                   last_5min_check>>
    /\ IF ~phase5_can_trade(now)
       THEN \* continue
            /\ pc' = "cycle"
            /\ ret' = [op |-> "can_trade", val |-> "False"]
            /\ UNCHANGED <<liveVars, entries, is_running>>
       ELSE /\ t \in After(2)
            /\ execute_buy_body(m, q, accepted, st, t)
            /\ pc' = CASE ret'.val = "True" -> "monitor"
                       [] ret'.val = "False" -> "buy_failed"
                       [] OTHER -> "returned"    \* the exception leaves run()
            /\ is_running' = (is_running /\ ret'.val # "raise")

\* `time.sleep(60)` after a buy that failed
LiveBuyFailed(t) ==
    /\ mode = "liverun"
    /\ pc = "buy_failed"
    /\ t \in After(60)
    /\ now' = t
    /\ pc' = "phase7"
    /\ ret' = [op |-> "time.sleep", val |-> "60"]
    /\ UNCHANGED <<mode, btVars, available_balance, trading_capital,
                   selected_option, calculated_quantity, position_open,
                   entry_price, entry_time, position_quantity, position_symbol,
                   daily_trades, total_pnl, orders, evalVars, df_2min, df_5min,
                   idx, candle, last_5min_check_idx, ce_len, signalVars, entries>>

\* one pass of the loop of monitor_for_exit: the quote q comes back, the
\* confirm-timeframe candles are w2, and an order placed is accepted or not
\* and reported as st
LiveMonitorPoll(q, w2, accepted, st, t) ==
    LET exit == live_check_exit_conditions(w2)
    IN
    /\ mode = "liverun"
    /\ pc = "monitor"
    /\ UNCHANGED <<mode, btVars, df, verdict, df_5min, idx, candle,
                   last_5min_check_idx, ce_len, signalVars>>
    /\ IF ~(is_running /\ position_open)
       THEN /\ pc' = "phase7"
            /\ ret' = [op |-> "monitor_for_exit", val |-> "None"]
            /\ t \in After(0) /\ now' = t
            /\ UNCHANGED <<available_balance, trading_capital, selected_option,
                           calculated_quantity, position_open, entry_price,
                           entry_time, position_quantity, position_symbol,
                           daily_trades, total_pnl, orders, df_2min, entries>>
       ELSE IF ~is_market_open(now) \/ get_time_to_market_close(now) <= 0
       THEN /\ t \in After(2)
            /\ execute_sell_body("market_close", q, accepted, st, t)
            /\ pc' = "phase7"
            /\ UNCHANGED df_2min
       ELSE IF ~empty(w2) /\ exit.should_exit
       THEN /\ t \in After(2)
            /\ execute_sell_body(exit.reason, q, accepted, st, t)
            /\ pc' = "phase7"
            /\ df_2min' = w2
       ELSE /\ selected_option' = option_after_quote(q)
            /\ df_2min' = w2
            /\ pc' = pc
            /\ ret' = [op |-> "time.sleep", val |-> "5"]
            /\ t \in After(confirm_check_seconds) /\ now' = t
            /\ UNCHANGED <<available_balance, trading_capital,
                           calculated_quantity, position_open, entry_price,
                           entry_time, position_quantity, position_symbol,
                           daily_trades, total_pnl, orders, entries>>

\* phase 7 of run(): the pause before the next cycle
LivePhase7(t) ==
    /\ mode = "liverun"
    /\ pc = "phase7"
    /\ IF is_market_open(now) /\ ~should_stop_new_trades(now)
       THEN /\ t \in After(5)
            /\ ret' = [op |-> "time.sleep", val |-> "5"]
       ELSE /\ t \in After(0)
            /\ ret' = [op |-> "run", val |-> "next cycle"]
    /\ now' = t
    /\ pc' = "cycle"
    /\ UNCHANGED <<mode, btVars, available_balance, trading_capital,
                   selected_option, calculated_quantity, position_open,
                   entry_price, entry_time, position_quantity, position_symbol,
                   daily_trades, total_pnl, orders, evalVars, df_2min, df_5min,
                   idx, candle, last_5min_check_idx, ce_len, signalVars, entries>>

\* the end of run(), after the trading loop (reason market_close) or in the
\* handler of KeyboardInterrupt (reason user_stop): an open position is
\* sold, and run() returns through `finally`
LiveCloseAndReturn(reason, q, accepted, st, t) ==
    /\ IF position_open
       THEN /\ t \in After(2)
            /\ execute_sell_body(reason, q, accepted, st, t)
       ELSE /\ t = now
            /\ ret' = [op |-> "display_daily_summary", val |-> "None"]
            /\ UNCHANGED <<liveVars, entries>>
    /\ pc' = "returned"
    /\ is_running' = FALSE
    /\ UNCHANGED <<mode, btVars, evalVars, df_2min, df_5min, idx, candle,
                   last_5min_check_idx, ce_len, primary_signal, confirm_signal,
                   last_5min_check>>

\* END OF DAY of run()
LiveEndOfDay(q, accepted, st, t) ==
    /\ mode = "liverun"
    /\ pc = "end_of_day"
    /\ LiveCloseAndReturn("market_close", q, accepted, st, t)

\* the user interrupts run(): KeyboardInterrupt is raised inside its `try`
LiveInterrupt ==
    /\ mode = "liverun"
    /\ pc \in Running
    /\ pc' = "interrupted"
    /\ ret' = [op |-> "run", val |-> "KeyboardInterrupt"]
    /\ UNCHANGED <<mode, btVars, liveVars, evalVars, df_2min, df_5min, idx,
                   candle, last_5min_check_idx, ce_len, signalVars, entries>>

\* `except KeyboardInterrupt` of run()
LiveInterrupted(q, accepted, st, t) ==
    /\ mode = "liverun"
    /\ pc = "interrupted"
    /\ LiveCloseAndReturn("user_stop", q, accepted, st, t)

\* stop(), called from outside while run() is running
stop ==
    /\ mode = "liverun"
    /\ pc \in Running
    /\ is_running
    /\ is_running' = FALSE
    /\ ret' = [op |-> "stop", val |-> "None"]
    /\ UNCHANGED <<mode, btVars, liveVars, evalVars, runVars, primary_signal,
                   confirm_signal, last_5min_check, entries>>

InitLiveRun ==
    /\ mode = "liverun"
    /\ InitObjects
    /\ now \in LiveTimes
    /\ df = NoWindow
    /\ verdict = None

NextLiveRun ==
    \/ \E m \in Margins, t \in LiveTimes : LiveRunStart(m, t)
    \/ \E t \in LiveTimes : LiveWaitOpen(t)
    \/ \E s \in Selections, m \in Margins, t \in LiveTimes : LiveCycle(s, m, t)
    \/ \E q \in Quotes, w2 \in LiveWindows, w5 \in LiveWindows, t \in LiveTimes :
          LiveWaitPoll(q, w2, w5, t)
    \/ \E m \in Margins, q \in Quotes, a \in BOOLEAN, st \in OrderStatuses,
          t \in LiveTimes : LivePhase5(m, q, a, st, t)
    \/ \E t \in LiveTimes : LiveBuyFailed(t)
    \/ \E q \in Quotes, w2 \in LiveWindows, a \in BOOLEAN, st \in OrderStatuses,
          t \in LiveTimes : LiveMonitorPoll(q, w2, a, st, t)
    \/ \E t \in LiveTimes : LivePhase7(t)
    \/ \E q \in Quotes, a \in BOOLEAN, st \in OrderStatuses, t \in LiveTimes :
          LiveEndOfDay(q, a, st, t)
    \/ LiveInterrupt
    \/ \E q \in Quotes, a \in BOOLEAN, st \in OrderStatuses, t \in LiveTimes :
          LiveInterrupted(q, a, st, t)
    \/ stop

SpecLiveRun == InitLiveRun /\ [][NextLiveRun]_vars

----------------------------------------------------------------------------
\* IntegratedNiftyCETrader: position sizing.  The object fetches the balance,
\* selects an option and computes the quantity, in any order.

\* live balances the broker reports (a debit balance among them) and the
\* premiums of the options the scanner offers (a quote of 0 among them)
SizeBalances == {-100, 0, 70, 100, 150, 300}
SizePremiums == {0, 1, 2, 3}

\* get_account_balance(), the broker reporting the live balance b
GetAccountBalance(b) ==
    /\ mode = "size"
    /\ available_balance' = b
    /\ trading_capital' = capital_of(b)
    /\ ret' = [op |-> "get_account_balance", val |-> "value"]
    /\ UNCHANGED <<mode, btVars, selected_option, calculated_quantity,
                   position_open, entry_price, entry_time, position_quantity,
                   position_symbol, daily_trades, total_pnl, now, orders,
                   evalVars, runVars, signalVars, entries>>

\* select_best_ce_option(), the scanner offering an option at premium p
SelectOption(p) ==
    /\ mode = "size"
    /\ selected_option' = [tradingsymbol |-> Symbol, ltp |-> p]
    /\ ret' = [op |-> "select_best_ce_option", val |-> "option"]
    /\ UNCHANGED <<mode, btVars, available_balance, trading_capital,
                   calculated_quantity, position_open, entry_price, entry_time,
                   position_quantity, position_symbol, daily_trades, total_pnl,
                   now, orders, evalVars, runVars, signalVars, entries>>

\* calculate_quantity(), called without argument as everywhere in the class
CalculateQuantity ==
    LET cq == calculate_quantity(selected_option, trading_capital)
    IN
    /\ mode = "size"
    /\ calculated_quantity' = cq[2]
    /\ verdict' = [fn |-> "calculate_quantity", result |-> cq[1],
                   selected |-> selected_option # None,
                   premium |-> IF selected_option = None THEN 0
                               ELSE selected_option.ltp,
                   trading_capital |-> trading_capital]
    /\ ret' = [op |-> "calculate_quantity", val |-> "value"]
    /\ UNCHANGED <<mode, btVars, available_balance, trading_capital,
                   selected_option, position_open, entry_price, entry_time,
                   position_quantity, position_symbol, daily_trades, total_pnl,
                   now, orders, df, runVars, signalVars, entries>>

InitSize ==
    /\ mode = "size"
    /\ InitCommon
    /\ df = NoWindow
    /\ verdict = None

NextSize ==
    \/ \E b \in SizeBalances : GetAccountBalance(b)
    \/ \E p \in SizePremiums : SelectOption(p)
    \/ CalculateQuantity

SpecSize == InitSize /\ [][NextSize]_vars

----------------------------------------------------------------------------
\* Properties of the position lifecycle (specification Spec)

BuyCall == \E p \in BuyPrices : simulate_buy(now, p)
SellCall == \E p \in Prices, r \in ExitReasons : simulate_sell(now, p, r)
ExecuteBuyCall ==
    \E m \in Margins, q \in Quotes, a \in BOOLEAN, st \in OrderStatuses :
        execute_buy(m, q, a, st)
ExecuteSellCall ==
    \E r \in ExitReasons, q \in Quotes, a \in BOOLEAN, st \in OrderStatuses :
        execute_sell(r, q, a, st)

livePosition == <<position_open, entry_price, entry_time, position_quantity,
                  position_symbol>>

\* C1: in the backtest at most one position is open in every reachable
\* state (the entries made and not yet closed by a Trade number 0 or 1, and
\* 1 exactly when current_position is set), and simulate_buy called while
\* current_position is set returns False and leaves current_position,
\* current_balance and the trade ledger unchanged.
C1_SingleBacktestPosition ==
    /\ [](mode = "backtest" =>
            /\ entries - Len(trades) \in {0, 1}
            /\ (current_position # None) <=> (entries - Len(trades) = 1))
    /\ [][(BuyCall /\ current_position # None)
            => (ret'.val = "False" /\ UNCHANGED <<current_position,
                                                  current_balance, trades>>)]_vars

C1_Witness ==
    /\ mode = "backtest"
    /\ ret = [op |-> "simulate_buy", val |-> "False"]
    /\ current_position # None

\* C24: the backtest buys a fixed one lot: simulate_buy called while flat
\* always succeeds with quantity = lot_size, whatever the price and the
\* balance (which may go negative), and every Trade of the ledger has
\* quantity = lot_size.
C24_FixedOneLot ==
    /\ [](mode = "backtest" =>
            /\ \A i \in 1..Len(trades) : trades[i].quantity = lot_size
            /\ current_position # None => current_position.quantity = lot_size)
    /\ [][(BuyCall /\ current_position = None) =>
            /\ ret'.val = "True"
            /\ current_position' # None
            /\ current_position'.quantity = lot_size
            /\ current_balance' = current_balance - current_position'.entry_price * lot_size]_vars

\* a lot bought for more than the balance, and a trade already in the ledger
C24_Witness ==
    /\ mode = "backtest"
    /\ current_position # None
    /\ current_position.quantity = lot_size
    /\ current_balance < 0
    /\ Len(trades) >= 1

\* C2: in the live trader execute_buy invoked with position_open = True
\* places no BUY order and leaves entry_price, entry_time,
\* position_quantity and position_symbol unchanged.
C2_BuyWhileOpenIsNoOp ==
    [][(ExecuteBuyCall /\ position_open)
         => (orders'.BUY = orders.BUY /\ UNCHANGED livePosition)]_vars

\* C3: an exit attempted while FLAT is a no-op in both drivers:
\* simulate_sell with no current_position and execute_sell with
\* position_open = False return False, place no order, append no Trade and
\* leave the balance / total_pnl (and the position fields) unchanged.
C3_SellWhileFlatIsNoOp ==
    [][/\ (SellCall /\ current_position = None)
            => (ret'.val = "False" /\ UNCHANGED <<current_position,
                                                  current_balance, trades>>)
       /\ (ExecuteSellCall /\ ~position_open)
            => (/\ ret'.val = "False"
                /\ UNCHANGED <<orders, daily_trades, total_pnl, livePosition>>)]_vars

C3_Witness ==
    /\ mode = "live"
    /\ ret = [op |-> "execute_sell", val |-> "False"]
    /\ ~position_open
    /\ Len(daily_trades) >= 1

\* C4: the k-th Trade of either ledger (backtest trades, live daily_trades)
\* has trade_number = k: the numbers start at 1 and go up by 1, with no gap
\* and no repeat.
C4_TradeNumbersAreIndices ==
    /\ \A k \in 1..Len(trades) : trades[k].trade_number = k
    /\ \A k \in 1..Len(daily_trades) : daily_trades[k].trade_number = k

C4_Witness == Len(daily_trades) >= 2 /\ daily_trades[2].trade_number = 2

\* C5: in every reachable state the number of Trades in the ledger equals
\* the number of successful entries, minus 1 while a position is open.
C5_LedgerCountsEntries ==
    /\ mode = "backtest" =>
          Len(trades) = entries - (IF current_position # None THEN 1 ELSE 0)
    /\ mode = "live" =>
          Len(daily_trades) = entries - (IF position_open THEN 1 ELSE 0)

\* C6: every appended Trade carries the entry_price, entry_time and quantity
\* of the position it closed, and has pnl = (exit_price - entry_price) *
\* quantity and pnl_pct = (exit_price - entry_price) / entry_price * 100.
TradeArithmetic(t) ==
    /\ t.pnl = (t.exit_price - t.entry_price) * t.quantity
    /\ t.pnl_pct = Frac((t.exit_price - t.entry_price) * 100, t.entry_price)

C6_TradeCarriesClosedPosition ==
    [][/\ Len(trades') = Len(trades) + 1 =>
            LET t == trades'[Len(trades')]
            IN  /\ current_position # None
                /\ current_position' = None
                /\ t.entry_price = current_position.entry_price
                /\ t.entry_time = current_position.entry_time
                /\ t.quantity = current_position.quantity
                /\ TradeArithmetic(t)
       /\ Len(daily_trades') = Len(daily_trades) + 1 =>
            LET t == daily_trades'[Len(daily_trades')]
            IN  /\ position_open
                /\ ~position_open'
                /\ t.entry_price = entry_price
                /\ t.entry_time = entry_time
                /\ t.quantity = position_quantity
                /\ TradeArithmetic(t)]_vars

C6_Witness ==
    /\ mode = "live"
    /\ ret = [op |-> "execute_sell", val |-> "True"]
    /\ daily_trades[Len(daily_trades)].pnl = lot_size

\* C19: the live lifecycle never becomes OPEN without a real fill: if the
\* BUY order fails, is rejected, or is not reported filled with a positive
\* price, position_open stays False.
C19_OpenOnlyOnRealFill ==
    [][(~position_open /\ position_open')
         => (orders'.BUY = orders.BUY + 1 /\ orders'.filled_price > 0)]_vars

\* C20: when an order id was obtained but no fill price is available after
\* the wait, the transition is still completed with the last quoted premium
\* (as entry_price on BUY, as exit_price of the Trade on SELL); a reported
\* positive fill price is used instead whenever there is one.
C20_FallsBackToLastQuote ==
    [][/\ orders'.BUY = orders.BUY + 1 =>
            /\ position_open'
            /\ entry_price' = IF orders'.filled_price > 0
                              THEN orders'.filled_price
                              ELSE selected_option'.ltp
       /\ orders'.SELL = orders.SELL + 1 =>
            /\ position_open /\ ~position_open'
            /\ Len(daily_trades') = Len(daily_trades) + 1
            /\ daily_trades'[Len(daily_trades')].exit_price =
                   IF orders'.filled_price > 0
                   THEN orders'.filled_price
                   ELSE selected_option'.ltp]_vars

\* an exit at the last quoted premium 1 of a position entered at a fill of 2
C20_Witness ==
    /\ mode = "live"
    /\ ret = [op |-> "execute_sell", val |-> "True"]
    /\ daily_trades[Len(daily_trades)].entry_price = 2
    /\ daily_trades[Len(daily_trades)].exit_price = 1
    /\ selected_option.ltp = 1
    /\ orders.filled_price = 0

----------------------------------------------------------------------------
\* Properties of the signal evaluators (specification SpecEval)

BuyFns == {"live.check_buy_conditions", "backtest.check_buy_conditions"}
ExitFns == {"live.check_exit_conditions", "backtest.check_exit_conditions"}

EvaluatedBuy == verdict # None /\ verdict.fn \in BuyFns
EvaluatedExit == verdict # None /\ verdict.fn \in ExitFns

\* the seven entry conditions on the current row cur, prv the row before
SevenConditions(cur, prv) ==
    /\ cur.supertrend_direction = 1
    /\ Gt(cur.close, cur.supertrend)
    /\ Gt(cur.close, cur.ema_low_8)
    /\ Gt(cur.ema_8, cur.ema_9)
    /\ (Lt(cur.stoch_rsi_k, 50) \/ Gt(cur.stoch_rsi_k, prv.stoch_rsi_k))
    /\ (Lt(cur.rsi_14, 65) /\ Gt(cur.rsi_14, prv.rsi_14))
    /\ (Gt(cur.macd_hist, 0) \/ Gt(cur.macd_hist, prv.macd_hist))

\* the two exit triggers on the last three rows
TriggerA(cur, prv, prv2) ==
    /\ Lt(cur.ema_low_8, prv.ema_low_8)
    /\ Lt(prv.ema_low_8, prv2.ema_low_8)
    /\ Lt(cur.close, cur.ema_low_8)
TriggerB(cur) ==
    /\ cur.supertrend_direction = -1
    /\ Lt(cur.ema_8, cur.ema_9)
    /\ Lt(cur.close, cur.ema_low_8)

ConditionNames ==
    {"supertrend_bullish", "close_above_st", "close_above_ema_low",
     "ema_bullish", "stoch_ok", "rsi_ok", "macd_ok"}

\* what an evaluator hands back as details when it did not evaluate: the
\* live trader an error entry, the backtest an empty dict
InsufficientData(fn) ==
    IF fn \in {"live.check_buy_conditions", "live.check_exit_conditions"}
    THEN [error |-> "Insufficient data"]
    ELSE <<>>

\* C7: for a history of at least 20 rows the entry evaluator (live and
\* backtest) returns verdict true if and only if all seven conditions hold
\* on the current row; any single failing condition gives false.
C7_EntryIsConjunctionOfSeven ==
    (EvaluatedBuy /\ df.len >= 20) =>
        (verdict.signal <=> SevenConditions(iloc(df, 1), iloc(df, 2)))

C7_Witness ==
    /\ EvaluatedBuy /\ df.len >= 20
    /\ verdict.fn = "backtest.check_buy_conditions"
    /\ verdict.signal
    /\ iloc(df, 1).stoch_rsi_k = 80
    /\ iloc(df, 1).macd_hist = 0

\* C8: for a history of at least 5 rows the exit evaluator (live and
\* backtest) reports exactly one outcome: (true, ema_low_falling) whenever
\* Trigger A holds, also when Trigger B holds too; (true, strong_bearish)
\* when only Trigger B holds; (false, no reason) when neither holds.
C8_ExitOutcome ==
    (EvaluatedExit /\ df.len >= 5) =>
        LET A == TriggerA(iloc(df, 1), iloc(df, 2), iloc(df, 3))
            B == TriggerB(iloc(df, 1))
        IN  /\ A => (verdict.should_exit /\ verdict.reason = "ema_low_falling")
            /\ (~A /\ B) => (verdict.should_exit /\ verdict.reason = "strong_bearish")
            /\ (~A /\ ~B) => (~verdict.should_exit /\ verdict.reason = NoneText)

C8_Witness ==
    /\ EvaluatedExit /\ df.len >= 5
    /\ TriggerA(iloc(df, 1), iloc(df, 2), iloc(df, 3))
    /\ TriggerB(iloc(df, 1))
    /\ verdict.reason = "ema_low_falling"

C10_ExitNeedsTwentyRows ==
    (EvaluatedExit /\ df.len < 20) =>
        /\ ~verdict.should_exit
        /\ verdict.reason = NoneText

\* C30: on the same indicator rows the live and the backtest
\* check_buy_conditions (thresholds 65 and 50) give the same verdict, and
\* the live and the backtest check_exit_conditions give the same
\* (should_exit, reason).
C30_LiveAndBacktestAgree ==
    /\ EvaluatedBuy =>
          /\ verdict.signal = live_check_buy_conditions(df).signal
          /\ verdict.signal = bt_check_buy_conditions(df).signal
    /\ EvaluatedExit =>
          /\ verdict.should_exit = live_check_exit_conditions(df).should_exit
          /\ verdict.should_exit = bt_check_exit_conditions(df).should_exit
          /\ verdict.reason = live_check_exit_conditions(df).reason
          /\ verdict.reason = bt_check_exit_conditions(df).reason

\* the backtest evaluator gave a buy signal on a window of 20 rows whose
\* StochRSI is above the threshold and rising, and the live one gives it too
C30_Witness ==
    /\ EvaluatedBuy
    /\ verdict.fn = "backtest.check_buy_conditions"
    /\ df.len = 20
    /\ iloc(df, 1).stoch_rsi_k = 80
    /\ verdict.signal
    /\ live_check_buy_conditions(df).signal

----------------------------------------------------------------------------
\* Properties of the backtest replay (specification SpecBtRun)

\* an iteration of the loop on a new candle
CandleStep == mode = "btrun" /\ pc = "loop" /\ candle' # candle
\* a Trade was appended to the backtest ledger
TradeAppended == Len(trades') = Len(trades) + 1
LastTrade == trades'[Len(trades')]

\* C11: in the backtest an entry is made at a step only if, at that same
\* step, the entry evaluation returned true on both the confirm (2-minute)
\* window and the primary (5-minute) window ending at that candle's time.
C11_EntryNeedsBothWindows ==
    [][(mode = "btrun" /\ entries' = entries + 1) =>
          /\ CandleStep
          /\ current_position'.entry_time = candle'.date
          /\ bt_check_buy_conditions(df_2min').signal
          /\ bt_check_buy_conditions(df_5min').signal]_vars

C11_Witness ==
    /\ mode = "btrun"
    /\ ret = [op |-> "simulate_buy", val |-> "True"]
    /\ entries = 2
    /\ current_position.entry_time = candle.date

\* C15: in the backtest replay, once the stop-new-trades point (15:15) is
\* reached no new entry is made, but an open position keeps being evaluated
\* for exit triggers at every following candle: on a candle whose 2-minute
\* window fires an exit trigger the position is closed with that trigger's
\* reason, and market_close is the reason only if no trigger fired.
C15_ExitsEvaluatedUntilClose ==
    [][/\ (mode = "btrun" /\ entries' = entries + 1) =>
              candle'.date < at(15, 15)
       /\ (CandleStep /\ current_position # None
             /\ bt_check_exit_conditions(df_2min').should_exit) =>
              /\ TradeAppended
              /\ LastTrade.exit_reason = bt_check_exit_conditions(df_2min').reason
       /\ (CandleStep /\ TradeAppended /\ LastTrade.exit_reason = "market_close") =>
              ~bt_check_exit_conditions(df_2min').should_exit]_vars

\* C16: when run() returns its metrics no position is open: a position
\* still open at the forced-close boundary, or after the last index, has
\* been closed by exactly one Trade with exit_reason market_close at that
\* candle's close price.
C16_ReturnsFlat ==
    /\ [](mode = "btrun" /\ pc = "returned" => current_position = None)
    /\ [][(/\ mode = "btrun"
           /\ current_position # None
           /\ \/ pc = "after_loop" /\ pc' = "returned"
              \/ CandleStep /\ pc' = "after_loop") =>
              /\ TradeAppended
              /\ current_position' = None
              /\ LastTrade.exit_reason = "market_close"
              /\ LastTrade.exit_price = candle'.close
              /\ LastTrade.exit_time = candle'.date
              /\ LastTrade.entry_price = current_position.entry_price]_vars

\* the position entered at 15:13 is closed after the last index
C16_Witness ==
    /\ mode = "btrun"
    /\ pc = "returned"
    /\ ret = [op |-> "simulate_sell", val |-> "True"]
    /\ trades[Len(trades)].exit_reason = "market_close"
    /\ trades[Len(trades)].exit_time = at(15, 13)

\* the replay has returned the dictionary of _calculate_metrics
ReturnedMetrics ==
    /\ mode = "btrun"
    /\ pc = "returned"
    /\ verdict # None
    /\ verdict.fn = "_calculate_metrics"

C26_OneTransitionPerIndex ==
    mode = "btrun" =>
        /\ \A i \in 1..Len(trades) :
              trades[i].entry_time # trades[i].exit_time
        /\ \A i \in 1..(Len(trades) - 1) :
              trades[i].exit_time # trades[i + 1].entry_time
        /\ (current_position # None /\ trades # <<>>) =>
              trades[Len(trades)].exit_time # current_position.entry_time

\* a position opened at the last index of the series is closed by the
\* forced exit at that same candle
C26_OpenedAndClosedAtLastIndex ==
    ~(/\ ReturnedMetrics
      /\ trades # <<>>
      /\ trades[Len(trades)].entry_time = trades[Len(trades)].exit_time
      /\ trades[Len(trades)].exit_time = candle.date
      /\ trades[Len(trades)].exit_reason = "market_close")

\* C29: two replays of the same candle series under the same configuration
\* give the same ledger and metrics; nothing depends on the wall clock.
\* At the start of a replay, the date of the day decides nothing.
C29_NoWallClockDependence ==
    [][(mode = "btrun" /\ pc = "constructed" /\ pc' # pc) =>
          \A d \in RunDays : validate_test_date(d) = validate_test_date(now)]_vars

\* the same replay started on the day before the test date raises, and
\* started on the test date goes on to the loop
C29_RaisesBeforeTestDate ==
    ~(/\ mode = "btrun"
      /\ pc = "returned"
      /\ ret = [op |-> "validate_test_date", val |-> "raise"]
      /\ now < test_date
      /\ validate_test_date(test_date) = "passed")

\* an iteration of the loop that reaches the entry branch: the trader is
\* flat, the candle is inside the trading window and both windows have rows
FlatStep ==
    /\ CandleStep
    /\ current_position = None
    /\ ~(hour_of(candle'.date) = 9 /\ minute_of(candle'.date) < 30)
    /\ ~(hour_of(candle'.date) = 15 /\ minute_of(candle'.date) >= 15)
    /\ ~empty(df_2min') /\ ~empty(df_5min')

\* C32: while flat, the backtest evaluates the primary timeframe only at an
\* index at least 2 greater than that of the previous primary evaluation; at
\* any other flat step the primary verdict is false and no entry is made,
\* even when the confirm verdict is true.
C32_PrimaryThrottled ==
    [][FlatStep =>
          IF idx - last_5min_check_idx >= 2
          THEN /\ last_5min_check_idx' = idx
               /\ primary_signal' = bt_check_buy_conditions(df_5min').signal
          ELSE /\ last_5min_check_idx' = last_5min_check_idx
               /\ ~primary_signal'
               /\ entries' = entries
               /\ current_position' = None]_vars

\* a flat step one index after a primary evaluation: both windows meet the
\* entry conditions, the confirm verdict is true, and no entry was made
C32_Witness ==
    /\ mode = "btrun"
    /\ pc = "loop"
    /\ last_5min_check_idx = idx - 2
    /\ confirm_signal
    /\ bt_check_buy_conditions(df_5min).signal
    /\ ~primary_signal
    /\ current_position = None
    /\ ret = [op |-> "check_buy_conditions", val |-> "False"]

\* C33: every backtest entry is made at a candle of index >= 20 whose time
\* t satisfies 09:30 <= t < 15:15, and once a candle at or after 15:15 has
\* been reached no further entry is made in that run.
C33_EntriesInsideWindow ==
    /\ [](mode = "btrun" =>
            /\ current_position # None =>
                  /\ current_position.entry_time >= at(9, 30)
                  /\ current_position.entry_time < at(15, 15)
            /\ \A i \in 1..Len(trades) :
                  /\ trades[i].entry_time >= at(9, 30)
                  /\ trades[i].entry_time < at(15, 15))
    /\ [][(mode = "btrun" /\ entries' # entries) =>
            /\ CandleStep
            /\ idx >= 20
            /\ idx' = idx + 1
            /\ current_position'.entry_time = candle'.date]_vars
    /\ [][(mode = "btrun" /\ candle # None /\ candle.date >= at(15, 15)) =>
            entries' = entries]_vars

\* the candle of 15:15 was reached after an entry at 15:13
C33_Witness ==
    /\ mode = "btrun"
    /\ pc = "after_loop"
    /\ candle # None
    /\ candle.date = at(15, 15)
    /\ trades # <<>>
    /\ trades[Len(trades)].entry_time = at(15, 13)
    /\ trades[Len(trades)].exit_time = at(15, 15)

\* the sum of the pnl of the Trades of the ledger
LedgerPnl == sum_pnl(trades)

\* C36: in the backtest current_balance is initial_balance plus the pnl of
\* all Trades whenever the trader is flat, and that value minus
\* entry_price * quantity while a position is open; so the final_balance of
\* the metrics is initial_balance + total_pnl.
C36_BalanceIsInitialPlusPnl ==
    mode = "btrun" =>
        /\ current_position = None =>
              current_balance = initial_balance + LedgerPnl
        /\ current_position # None =>
              current_balance =
                  initial_balance + LedgerPnl
                  - current_position.entry_price * current_position.quantity
        /\ ReturnedMetrics =>
              /\ verdict.result.total_pnl = LedgerPnl
              /\ verdict.result.final_balance =
                    initial_balance + verdict.result.total_pnl

\* a replay has returned with a loss of one per unit and then a Trade
\* without gain or loss in its ledger
C36_Witness ==
    /\ ReturnedMetrics
    /\ Len(trades) = 2
    /\ trades[1].pnl < 0
    /\ trades[2].pnl = 0
    /\ verdict.result.final_balance = initial_balance - lot_size

\* C37: the backtest ledger is chronological and non-overlapping: every
\* Trade has exit_time >= entry_time, and of two consecutive Trades the
\* later is entered strictly after the earlier was exited.
C37_LedgerChronological ==
    mode = "btrun" =>
        /\ \A i \in 1..Len(trades) :
              trades[i].exit_time >= trades[i].entry_time
        /\ \A i \in 1..(Len(trades) - 1) :
              trades[i + 1].entry_time > trades[i].exit_time
        /\ (current_position # None /\ trades # <<>>) =>
              current_position.entry_time > trades[Len(trades)].exit_time

\* two Trades in the ledger, the second closed by the forced exit
C37_Witness ==
    /\ ReturnedMetrics
    /\ Len(trades) = 2
    /\ trades[1].exit_time < trades[2].entry_time
    /\ trades[2].exit_reason = "market_close"

\* C31: at every replay step the window the backtest hands to the
\* evaluators for a timeframe is exactly the window a live poll at that
\* time would hand to them: the same candles, the same length.
C31_SameWindowAsLivePoll ==
    (mode = "window" /\ verdict # None) =>
        /\ Len(verdict.backtest) = Len(verdict.live)
        /\ verdict.backtest = verdict.live

\* at index 20 the backtest hands over 20 two-minute candles and the live
\* poll the 21 of the day, with none of earlier days
C31_LivePollHasMoreCandles ==
    ~(/\ mode = "window" /\ verdict # None
      /\ idx = 20
      /\ verdict.interval = 2
      /\ Len(verdict.backtest) = 20
      /\ Len(verdict.live) = 21
      /\ verdict.live[1] = <<test_date, 0>>
      /\ verdict.backtest[1] = <<test_date, 1>>)

----------------------------------------------------------------------------
\* The end-to-end scenario of the replay: run() on a series of 40 candles,
\* two minutes apart from 10:20 on (index 20 is the candle of 11:00), the
\* windows of each index being those the scenario allows.

ScenarioLength == 40
ScenarioTime(i) == at(11, 0) + 120 * (i - 20)

\* the windows of the scenario: those of the replay, and one on whose last
\* row both exit triggers hold
ScenarioWindowsAt(p) == RunWindowsAt(p) \cup {WindowOf(20, TriggerBRow, p, 4)}
ScenarioWindows == UNION {ScenarioWindowsAt(p) : p \in Prices}

\* the entry evaluation is true on the window w
EntryTrue(w) == w.len >= 20 /\ SevenConditions(iloc(w, 1), iloc(w, 2))
TriggerAHolds(w) == w.len >= 5 /\ TriggerA(iloc(w, 1), iloc(w, 2), iloc(w, 3))
TriggerBHolds(w) == w.len >= 5 /\ TriggerB(iloc(w, 1))

\* what the scenario says of index i: entry true on both timeframes at 20
\* to 25, no exit trigger at 21 to 29, Trigger B at 30, no double
\* confirmation after 30
ScenarioAllows(i, w2, w5) ==
    /\ (i >= 20 /\ i <= 25) => (EntryTrue(w2) /\ EntryTrue(w5))
    /\ (i >= 21 /\ i <= 29) => (~TriggerAHolds(w2) /\ ~TriggerBHolds(w2))
    /\ i = 30 => TriggerBHolds(w2)
    /\ i > 30 => ~(EntryTrue(w2) /\ EntryTrue(w5))

\* one iteration of the loop of run() on the candle of the index idx
ScenarioCandle(p, w2, w5) ==
    /\ ScenarioAllows(idx, w2, w5)
    /\ BtRunCandle([date |-> ScenarioTime(idx), close |-> p], w2, w5)

InitScenario ==
    /\ InitBtRun
    /\ now = test_date

NextScenario ==
    \/ BtRunStart(ScenarioLength)
    \/ \E p \in Prices :
          \E w2 \in {w \in ScenarioWindowsAt(p) : w.len = 20},
             w5 \in ScenarioWindows :
              ScenarioCandle(p, w2, w5)
    \/ BtRunLoopEnd
    \/ BtRunFinish

SpecScenario == InitScenario /\ [][NextScenario]_vars

\* the replay of the scenario has returned
ScenarioReturned == ReturnedMetrics /\ ce_len = ScenarioLength

\* exactly one Trade, entered at index 20 and exited at index 30
ScenarioOneTrade ==
    /\ Len(trades) = 1
    /\ current_position = None
    /\ trades[1].entry_time = ScenarioTime(20)
    /\ trades[1].exit_time = ScenarioTime(30)
    /\ verdict.result.total_trades = 1

\* C27: in the 40-candle scenario (entry true on both timeframes at
\* indices 20 to 25, no exit trigger at 21 to 29, Trigger B at 30, no double
\* confirmation after 30) the replay produces exactly one Trade, entered at
\* index 20 and exited at index 30 with reason strong_bearish, and
\* total_trades = 1.
C27_ScenarioExitsStrongBearish ==
    ScenarioReturned =>
        /\ ScenarioOneTrade
        /\ trades[1].exit_reason = "strong_bearish"

\* C27, amended: the same, the reason being strong_bearish when Trigger A
\* does not hold at index 30 too, and ema_low_falling when it does.
C27_ScenarioOneTrade ==
    /\ [](ScenarioReturned =>
            /\ ScenarioOneTrade
            /\ trades[1].exit_reason \in {"strong_bearish", "ema_low_falling"})
    /\ [][(CandleStep /\ idx = 30) =>
            /\ TradeAppended
            /\ LastTrade.exit_time = ScenarioTime(30)
            /\ LastTrade.exit_reason =
                  IF TriggerAHolds(df_2min') THEN "ema_low_falling"
                  ELSE "strong_bearish"]_vars

\* the scenario with Trigger B alone at index 30, replayed to the end
C27_Witness ==
    /\ ScenarioReturned
    /\ ScenarioOneTrade
    /\ trades[1].exit_reason = "strong_bearish"
    /\ idx = ScenarioLength

----------------------------------------------------------------------------
\* Properties of the market hours (specification SpecClock)

\* C14: can_trade() returns true only for times t of the trading day with
\* 09:30 <= t < 15:15: entries are suppressed from the market open (09:15)
\* until 09:30 and from 15 minutes before the 15:30 close onwards.
C14_CanTradeOnlyInsideWindow ==
    (verdict # None /\ verdict.fn = "can_trade" /\ verdict.result) =>
        (at(9, 30) <= now /\ now < at(15, 15))

----------------------------------------------------------------------------
\* Properties of the live trading day (specification SpecLiveRun)

LiveTradeAppended == Len(daily_trades') = Len(daily_trades) + 1
LastLiveTrade == daily_trades'[Len(daily_trades')]

\* C12: wait_for_buy_signal signals an entry only if, on the deciding pass,
\* the entry evaluation is true both on the confirm-timeframe candles and on
\* the primary-timeframe candles of that moment; a primary verdict kept from
\* an earlier pass is not enough.
C12_BothTrueAtDecision ==
    [][(mode = "liverun" /\ pc = "wait" /\ pc' = "phase5") =>
          /\ live_check_buy_conditions(df_2min').signal
          /\ live_check_buy_conditions(df_5min').signal]_vars

\* C13: run() invokes execute_buy only with no position open and at a clock
\* reading at which the market is open, the watch-only period is over and
\* the stop-new-trades cutoff is not reached (can_trade() just returned true).
C13_BuyOnlyWhenFlatAndTradable ==
    [][(mode = "liverun" /\ pc = "phase5" /\ ret'.op = "execute_buy") =>
          /\ ~position_open
          /\ is_market_open(now)
          /\ ~is_watch_only_period(now)
          /\ ~should_stop_new_trades(now)]_vars

\* a buy executed by run(), the position now monitored
C13_Witness ==
    /\ mode = "liverun"
    /\ pc = "monitor"
    /\ ret = [op |-> "execute_buy", val |-> "True"]
    /\ position_open
    /\ orders.BUY = 1

\* C17: when the live run() has ended (market close, stop() or a user
\* interrupt), position_open is False.
C17_RunEndsFlat ==
    (mode = "liverun" /\ pc = "returned") => ~position_open

\* C18: a position closed because trading must stop is recorded with
\* exit_reason user_stop when an external stop signal is the cause (a user
\* interrupt, or stop() while the market is open and new trades are still
\* allowed), and with market_close when the market close is the cause.
C18_ForcedExitReason ==
    [][(mode = "liverun" /\ LiveTradeAppended
        /\ (pc' = "returned"
            \/ (pc = "monitor"
                /\ (~is_market_open(now) \/ get_time_to_market_close(now) <= 0)))) =>
          LastLiveTrade.exit_reason =
              IF \/ pc = "interrupted"
                 \/ pc = "end_of_day" /\ ~is_running /\ is_market_open(now)
                    /\ ~should_stop_new_trades(now)
              THEN "user_stop"
              ELSE "market_close"]_vars

\* the quantity calculate_quantity() returned in the step just taken
SizedQuantity == calculate_quantity(selected_option', trading_capital')[1]

\* C23: when sizing yields a quantity <= 0 at entry time, execute_buy places
\* no BUY order, returns False and leaves the lifecycle flat, and run() goes
\* on (a pause, then a later cycle) instead of failing; the trading loop
\* itself calls wait_for_buy_signal only with a positive quantity.
C23_ZeroQuantitySkipsCycle ==
    [][/\ (mode = "liverun" /\ pc = "phase5" /\ ret'.op = "execute_buy"
           /\ ret'.val # "raise" /\ SizedQuantity <= 0) =>
              /\ ret'.val = "False"
              /\ orders' = orders
              /\ ~position_open'
              /\ entries' = entries
              /\ pc' = "buy_failed"
              /\ is_running' = is_running
       /\ (mode = "liverun" /\ pc = "buy_failed" /\ pc' # pc) =>
              pc' \in {"phase7", "interrupted"}
       /\ (mode = "liverun" /\ pc = "phase7" /\ pc' # pc) =>
              pc' \in {"cycle", "interrupted"}
       /\ (mode = "liverun" /\ pc = "cycle" /\ pc' = "wait") => SizedQuantity > 0]_vars

\* execute_buy returned False in phase 5 because the premium had risen to
\* where the capital no longer buys one lot
C23_Witness ==
    /\ mode = "liverun"
    /\ pc = "buy_failed"
    /\ ret = [op |-> "execute_buy", val |-> "False"]
    /\ selected_option # None
    /\ calculate_quantity(selected_option, trading_capital)[1] <= 0
    /\ ~position_open
    /\ orders.BUY = 0

----------------------------------------------------------------------------
\* Properties of position sizing (specification SpecSize)

Sized == verdict # None /\ verdict.fn = "calculate_quantity"
SizedWithPremium == Sized /\ verdict.selected

\* C21: for a premium > 0, calculate_quantity returns
\* floor(trading_capital / (premium * lot_size)) * lot_size: a whole multiple
\* of lot_size whose cost does not exceed trading_capital while one more lot
\* would; capital 100000 at premium 100 gives 975.
C21_FloorLotArithmetic ==
    /\ calculate_quantity([tradingsymbol |-> Symbol, ltp |-> 100], 100000)[1] = 975
    /\ (SizedWithPremium /\ verdict.premium > 0) =>
          /\ verdict.result % lot_size = 0
          /\ verdict.result * verdict.premium <= verdict.trading_capital
          /\ (verdict.result + lot_size) * verdict.premium > verdict.trading_capital
          /\ calculated_quantity = verdict.result

\* two lots bought with a capital that is not a whole number of lots
C21_Witness ==
    /\ SizedWithPremium
    /\ verdict.premium = 1
    /\ verdict.trading_capital = 135
    /\ verdict.result = 2 * lot_size

\* C22: calculate_quantity returns exactly 0 whenever the premium is <= 0 or
\* trading_capital is less than the cost of one lot.
C22_ZeroWhenUnaffordable ==
    (SizedWithPremium
     /\ (verdict.premium <= 0
         \/ verdict.trading_capital < verdict.premium * lot_size)) =>
        verdict.result = 0

----------------------------------------------------------------------------
\* Properties of the metrics (specification SpecMetrics)

Measured == verdict # None /\ verdict.fn = "_calculate_metrics"

\* the running peak of the balance curve c at its element i
RECURSIVE PeakAt(_, _)
PeakAt(c, i) ==
    IF i = 1 THEN c[1]
    ELSE LET before == PeakAt(c, i - 1)
         IN  IF c[i] > before THEN c[i] ELSE before

\* (running peak - balance) / running peak * 100 at element i of the curve c
DipAt(c, i) == Frac((PeakAt(c, i) - c[i]) * 100, PeakAt(c, i))

\* C28: max_drawdown is the maximum, over the cumulative balance curve that
\* starts at initial_balance and adds each trade's pnl in ledger order, of
\* (running peak - balance) / running peak * 100; for pnl +500, -200, +300
\* on 100000 it is (100500 - 100300) / 100500 * 100.
C28_MaxDrawdownAlongCurve ==
    /\ max_drawdown_of(<<[pnl |-> 500], [pnl |-> -200], [pnl |-> 300]>>)
          = Frac((100500 - 100300) * 100, 100500)
    /\ (Measured /\ trades # <<>>) =>
          LET c == balance_curve(trades)
              d == verdict.result.max_drawdown
          IN  /\ c[1] = initial_balance
              /\ \A i \in 1..Len(trades) : c[i + 1] = c[i] + trades[i].pnl
              /\ \E i \in 1..Len(c) : d = DipAt(c, i)
              /\ \A i \in 1..Len(c) : ~FracGt(DipAt(c, i), d)

\* a ledger that wins, loses and wins back: the dip after the second trade
C28_Witness ==
    /\ Measured
    /\ Len(trades) = 3
    /\ trades[1].pnl > 0 /\ trades[2].pnl < 0 /\ trades[3].pnl > 0
    /\ verdict.result.max_drawdown =
          Frac(-trades[2].pnl * 100, initial_balance + trades[1].pnl)

----------------------------------------------------------------------------
\* Further properties of the live trader (specifications Spec and
\* SpecLiveRun)

\* the fields of the live position, the ledger and the orders placed
positionFields ==
    <<position_open, entry_price, entry_time, position_quantity,
      position_symbol, daily_trades, total_pnl, orders>>

\* C34: in the live driver, as long as a position is open, the driver is
\* running and the market is open, every poll evaluates the exit
\* conditions, and a poll on which an exit trigger is true attempts a SELL.
C34_ExitsEvaluatedWhileOpen ==
    [][(/\ mode = "liverun"
        /\ position_open /\ is_running /\ is_market_open(now)
        /\ pc \in {"cycle", "wait", "monitor"}
        /\ pc' # "interrupted"
        /\ ret'.op # "stop") =>
          /\ pc = "monitor"
          /\ (/\ ~empty(df_2min')
              /\ df_2min'.len >= 5
              /\ \/ TriggerA(iloc(df_2min', 1), iloc(df_2min', 2), iloc(df_2min', 3))
                 \/ TriggerB(iloc(df_2min', 1))) =>
                ret'.op = "execute_sell"]_vars

\* C35: when the broker does not accept an order, execute_buy returns False
\* and leaves every position field untouched (the trader stays flat), and
\* execute_sell returns False and leaves the position open with its entry
\* price, quantity, symbol, the ledger and total_pnl untouched.
C35_RefusedOrderChangesNothing ==
    \* a call that returns something else than False, or changes a field,
    \* is not one whose order the broker refused
    /\ [][(/\ mode = "live"
           /\ ret'.op = "execute_buy"
           /\ \/ ret'.val # "False"
              \/ ~UNCHANGED positionFields
              \/ entries' # entries) =>
            \A m \in Margins, q \in Quotes, st \in OrderStatuses :
                ~(m.ok /\ execute_buy(m, q, FALSE, st))]_vars
    /\ [][(/\ mode = "live"
           /\ ret'.op = "execute_sell"
           /\ position_open /\ selected_option # None
           /\ \/ ret'.val # "False"
              \/ ~position_open'
              \/ ~UNCHANGED positionFields) =>
            \A r \in ExitReasons, q \in Quotes, st \in OrderStatuses :
                ~execute_sell(r, q, FALSE, st)]_vars

\* an open position whose SELL the broker refused: nothing was recorded
C35_Witness ==
    /\ mode = "live"
    /\ position_open
    /\ ret = [op |-> "execute_sell", val |-> "False"]
    /\ daily_trades = <<>>
    /\ orders.BUY = 1 /\ orders.SELL = 0

\* C38: in the live trader an open position has entry_price > 0, a
\* position_quantity that is a positive multiple of lot_size and a
\* position_symbol; after a successful exit position_open is False,
\* entry_price and position_quantity are 0, entry_time and position_symbol
\* are None.
C38_OpenPositionWellFormed ==
    /\ []((mode = "live" /\ position_open) =>
                /\ entry_price > 0
                /\ position_quantity > 0
                /\ position_quantity % lot_size = 0
                /\ position_symbol # NoneText
                /\ entry_time # NoneTime)
    /\ [][(mode = "live" /\ Len(daily_trades') = Len(daily_trades) + 1) =>
            /\ ret' = [op |-> "execute_sell", val |-> "True"]
            /\ ~position_open'
            /\ entry_price' = 0
            /\ position_quantity' = 0
            /\ entry_time' = NoneTime
            /\ position_symbol' = NoneText]_vars

\* a position was opened at the last quote (no fill price) and then closed
C38_Witness ==
    /\ mode = "live"
    /\ ~position_open
    /\ Len(daily_trades) = 1
    /\ daily_trades[1].entry_price = 1
    /\ daily_trades[1].quantity = lot_size
    /\ entry_price = 0

\* C39: once stop() has set is_running to False the live driver places no
\* further BUY order, wherever in the polling loop the stop arrived, and
\* is_running is False after run() has terminated.
C39_NoBuyAfterStop ==
    /\ [][(mode = "liverun" /\ pc \in Running /\ ~is_running) =>
            orders'.BUY = orders.BUY]_vars
    /\ []((mode = "liverun" /\ pc = "returned") => ~is_running)

\* stop() arrived after wait_for_buy_signal had returned True, and the BUY
\* order was placed all the same
C39_BuyPlacedAfterStop ==
    ~(/\ mode = "liverun"
      /\ pc = "monitor"
      /\ ~is_running
      /\ position_open
      /\ ret = [op |-> "execute_buy", val |-> "True"])

====
